---- MODULE Spec2Model ----
(***************************************************************************)
(* A model of the route-ranking backend (src/unnamed/part_000, lines       *)
(* 1-193: the current server) as a state machine.                          *)
(*                                                                         *)
(* Units.  Coordinates are integers in 1/10000 degree (77.1234 is 771234). *)
(* PM2.5 readings are integers (ug/m3); an average is kept exactly as the  *)
(* pair sum, count.  Temperatures are integers in 1/10 degree Celsius      *)
(* (25.0 is 250).  Route lengths are decimals in 1/100 km (0.65 km is 65). *)
(* The arithmetic of the score is carried out exactly on these grids, with *)
(* the one rounding of the binary64 result as an input (halfDown); the     *)
(* sampling loop is carried out in binary64, digit by digit.               *)
(*                                                                         *)
(* Atomicity.  Node runs a handler without interruption from one await of  *)
(* an outbound call to the next; the microtasks a provider response        *)
(* releases (promise continuations, Promise.all fan-in) run to completion  *)
(* before the next I/O event is delivered.  One action of the model is one *)
(* such run: the arrival of a request or of a provider response together   *)
(* with everything the handler does until it next waits for I/O.           *)
(***************************************************************************)
EXTENDS Integers, Sequences, FiniteSets, TLC

VARIABLES
    aqiCache,         \* the module-scope Map: grid key -> PM2.5 reading
    pc,               \* per request: where the handler waits
    endQuery,         \* per request: the `end` text while the start is being geocoded
    startCoords,      \* per request: the resolved start [lon, lat]
    endCoords,        \* per request: the resolved end [lon, lat]
    fetching,         \* per request: the stage's outbound call the handler awaits
    routes,           \* per request: routeData.routes
    tempCelsius,      \* per request: the destination temperature
    pm25Values,       \* per request, route, sample: the lookup's state or reading
    processedRoutes,  \* per request, route: the scored route, once its task completed
    doneOrder,        \* per request: route indices in the order their tasks completed
    response,         \* per request: the HTTP response sent
    scoreIn,          \* scoring harness: the inputs of one health-score evaluation
    scoreOut,         \* scoring harness: its result
    rankIn,           \* ranking harness: a processedRoutes array
    rankOut,          \* ranking harness: the response computed from it
    geoIn,            \* geocoding harness: the start and end texts of a request
    geoOut,           \* geocoding harness: what the handler does with them
    orderIn,          \* ordering harness: the routes, cache and provider answers of a request
    sampleIn,         \* sampling harness: a route length, in 1/100 km
    sampleOut,        \* sampling harness: the distances of its samples
    clientIn,         \* client harness: the JSON a provider answered
    clientOut,        \* client harness: what the client function returns for it
    uiStart,          \* page: the state `start`, the text of the first input
    uiEnd,            \* page: the state `end`, the text of the second input
    uiRoutes,         \* page: the state `routes`, null or a response body
    uiLoading,        \* page: the state `loading`
    uiError,          \* page: the state `error`
    uiCalls           \* page: the fetchRoutes calls that sent a request, in order

vars == <<aqiCache, pc, endQuery, startCoords, endCoords, fetching, routes,
          tempCelsius, pm25Values, processedRoutes, doneOrder, response,
          scoreIn, scoreOut, rankIn, rankOut, geoIn, geoOut, orderIn,
          sampleIn, sampleOut, clientIn, clientOut,
          uiStart, uiEnd, uiRoutes, uiLoading, uiError, uiCalls>>

handlerVars == <<aqiCache, pc, endQuery, startCoords, endCoords, fetching,
                 routes, tempCelsius, pm25Values, processedRoutes, doneOrder,
                 response>>

stageVars == <<startCoords, endCoords, fetching>>

scoreVars == <<scoreIn, scoreOut>>

rankVars == <<rankIn, rankOut>>

geoVars == <<geoIn, geoOut>>

orderVars == <<orderIn>>

sampleVars == <<sampleIn, sampleOut>>

clientVars == <<clientIn, clientOut>>

uiVars == <<uiStart, uiEnd, uiRoutes, uiLoading, uiError, uiCalls>>

harnessVars == <<scoreIn, scoreOut, rankIn, rankOut, geoIn, geoOut, orderIn,
                 sampleIn, sampleOut, clientIn, clientOut,
                 uiStart, uiEnd, uiRoutes, uiLoading, uiError, uiCalls>>

----------------------------------------------------------------------------
(* Bounds of the model.                                                    *)

\* Concurrent requests the server handles.
MaxReq == 2

\* Scoring harness: the PM2.5 sum runs to 5 * MaxPmSteps in steps of 5, the
\* sample count to MaxSamples, the duration to MaxDurationMins minutes.
MaxPmSteps == 56

MaxSamples == 2

MaxDurationMins == 30

\* Ranking harness: the longest processedRoutes array.
MaxRoutes == 3

\* Geocoding harness: the longest text.
MaxQueryLen == 5

----------------------------------------------------------------------------
(* Arithmetic helpers.                                                     *)

\* Math.round on the rational num/den (den > 0): the nearest integer, a half
\* going towards +infinity.
MathRound(num, den) == (2 * num + den) \div (2 * den)

MathMin(a, b) == IF a < b THEN a ELSE b

MathMax(a, b) == IF a > b THEN a ELSE b

\* ToFixed3 that drops the fourth decimal.
ToFixed3Truncate(x) == IF x >= 0 THEN x \div 10 ELSE 0 - ((0 - x) \div 10)

\* Number.prototype.toFixed(3) of x/10000, as an integer number of
\* thousandths: the nearest thousandth of the magnitude, the sign kept.
ToFixed3(x) == IF x >= 0 THEN (x + 5) \div 10 ELSE 0 - ((5 - x) \div 10)

----------------------------------------------------------------------------
(* The health score (handler lines 152-159).                               *)
(*                                                                         *)
(* avgPm25 = pmSum / pmCount, tempCelsius = temp / 10.  All terms are put  *)
(* over the common denominator 20 * pmCount:                               *)
(*   100 -> 2000*pmCount, avgPm25*0.4 -> 8*pmSum,                          *)
(*   (tempCelsius-32)*1.5 -> 3*pmCount*(temp-320),                         *)
(*   durationMins*0.2 -> 4*pmCount*durationMins.                           *)
(* The handler computes in IEEE doubles, whose error (below 1e-12 here) is *)
(* far smaller than the grid 1/(40*pmCount), so it can change the rounded  *)
(* value only when the exact value lies exactly halfway between two        *)
(* integers: there the double may fall just below the half and Math.round  *)
(* gives the lower integer.  halfDown is that outcome.                     *)

ScoreDen(pmCount) == 20 * pmCount

\* RawHealthScore with the heat penalty starting at 30 degrees.
RawHealthScoreAbove30(pmSum, pmCount, temp, durationMins) ==
    LET afterPm   == 100 * ScoreDen(pmCount) - 8 * pmSum
        afterHeat == IF temp > 300
                     THEN afterPm - 3 * pmCount * (temp - 300)
                     ELSE afterPm
    IN  afterHeat - 4 * pmCount * durationMins

\* RawHealthScore with the heat term added instead of subtracted.
RawHealthScoreHeatBonus(pmSum, pmCount, temp, durationMins) ==
    LET afterPm   == 100 * ScoreDen(pmCount) - 8 * pmSum
        afterHeat == IF temp > 320
                     THEN afterPm + 3 * pmCount * (temp - 320)
                     ELSE afterPm
    IN  afterHeat - 4 * pmCount * durationMins

\* healthScore before rounding, times ScoreDen(pmCount).
RawHealthScore(pmSum, pmCount, temp, durationMins) ==
    LET afterPm   == 100 * ScoreDen(pmCount) - 8 * pmSum
        afterHeat == IF temp > 320
                     THEN afterPm - 3 * pmCount * (temp - 320)
                     ELSE afterPm
    IN  afterHeat - 4 * pmCount * durationMins

\* MathRoundDouble with Math.floor in place of Math.round.
MathFloorDouble(num, den, halfDown) == num \div den

\* Math.round of the double that stands for num/den.
MathRoundDouble(num, den, halfDown) ==
    IF halfDown /\ (2 * num) % (2 * den) = den
    THEN MathRound(num, den) - 1
    ELSE MathRound(num, den)

\* HealthScore without the clamp to [0, 100].
HealthScoreNoClamp(pmSum, pmCount, temp, durationMins, halfDown) ==
    MathRoundDouble(RawHealthScore(pmSum, pmCount, temp, durationMins),
                    ScoreDen(pmCount), halfDown)

\* Math.max(0, Math.min(100, Math.round(healthScore)))
HealthScore(pmSum, pmCount, temp, durationMins, halfDown) ==
    MathMax(0, MathMin(100,
        MathRoundDouble(RawHealthScore(pmSum, pmCount, temp, durationMins),
                        ScoreDen(pmCount), halfDown)))

----------------------------------------------------------------------------
(* Scoring harness: one evaluation of the health score on inputs drawn     *)
(* from a bounded grid.                                                    *)

TempGrid == {-400, 250, 319, 320, 321, 330, 333, 480}

NoScore == 0 - 1

ScoreInputs ==
    [pmSum : {5 * s : s \in 0..MaxPmSteps}, pmCount : 1..MaxSamples, temp : TempGrid,
     durationMins : 0..MaxDurationMins, halfDown : BOOLEAN]

IdleScoreIn ==
    [pmSum |-> 0, pmCount |-> 1, temp |-> 250, durationMins |-> 0, halfDown |-> FALSE]

InitScore ==
    /\ scoreIn \in ScoreInputs
    /\ scoreOut = NoScore

ComputeHealthScore ==
    /\ scoreOut = NoScore
    /\ scoreOut' = HealthScore(scoreIn.pmSum, scoreIn.pmCount, scoreIn.temp,
                               scoreIn.durationMins, scoreIn.halfDown)
    /\ UNCHANGED scoreIn

ScoreIdle == scoreIn = IdleScoreIn /\ scoreOut = NoScore

----------------------------------------------------------------------------
(* The data a request works on.                                            *)

Reqs == 1..MaxReq

\* Texts are sequences of characters.  The characters of the model: two
\* digits, the sign, the decimal point, the comma, the blank and a letter.
Digits == {"1", "2"}

Chars == Digits \cup {"-", ".", ",", " ", "a"}

\* The number of leading blanks of s.
LeadingBlanks(s) ==
    Cardinality({i \in DOMAIN s : \A k \in 1..i : s[k] = " "})

\* The number of trailing blanks of s.
TrailingBlanks(s) ==
    Cardinality({i \in DOMAIN s : \A k \in i..Len(s) : s[k] = " "})

\* String.prototype.trim
Trim(s) ==
    IF LeadingBlanks(s) = Len(s) THEN <<>>
    ELSE SubSeq(s, LeadingBlanks(s) + 1, Len(s) - TrailingBlanks(s))

\* s matches -?\d+\.?\d* as a whole.
MatchNumber(s) ==
    LET body == IF s # <<>> /\ s[1] = "-" THEN Tail(s) ELSE s
    IN  /\ body # <<>>
        /\ body[1] \in Digits
        /\ \A i \in DOMAIN body : body[i] \in Digits \cup {"."}
        /\ Cardinality({i \in DOMAIN body : body[i] = "."}) <= 1

\* query.trim().match(/^(-?\d+\.?\d*),\s*(-?\d+\.?\d*)$/): the two groups,
\* or <<>> when the text does not match.  Neither group can hold a comma, so
\* a match has exactly one.
CoordGroups(query) ==
    LET t      == Trim(query)
        commas == {i \in DOMAIN t : t[i] = ","}
    IN  IF Cardinality(commas) # 1 THEN <<>>
        ELSE LET c     == CHOOSE i \in commas : TRUE
                 rest  == SubSeq(t, c + 1, Len(t))
                 first == SubSeq(t, 1, c - 1)
                 second == SubSeq(rest, LeadingBlanks(rest) + 1, Len(rest))
             IN  IF MatchNumber(first) /\ MatchNumber(second)
                 THEN <<first, second>>
                 ELSE <<>>

\* if (coordMatch)
CoordMatch(query) == CoordGroups(query) # <<>>

RECURSIVE DigitsValue(_)
\* The number a run of digits denotes.
DigitsValue(s) ==
    IF s = <<>> THEN 0
    ELSE 10 * DigitsValue(SubSeq(s, 1, Len(s) - 1))
         + (IF s[Len(s)] = "1" THEN 1 ELSE 2)

\* parseFloat of a text that matches -?\d+\.?\d*: the number is
\* mantissa / 10^decimals, written <<mantissa, decimals>> (the digits of the
\* model are not 0, so a number has one such pair).
ParseFloat(s) ==
    LET negative == s[1] = "-"
        body     == IF negative THEN Tail(s) ELSE s
        digits   == SelectSeq(body, LAMBDA ch : ch \in Digits)
        dots     == {i \in DOMAIN body : body[i] = "."}
        decimals == IF dots = {} THEN 0
                    ELSE Len(body) - (CHOOSE i \in dots : TRUE)
    IN  <<IF negative THEN 0 - DigitsValue(digits) ELSE DigitsValue(digits),
          decimals>>

\* What getCoordinates does up to its first await (lines 24-38): on a literal
\* it returns [lon, lat] with no call; otherwise it calls the geocoder.
NoCoords == <<>>

\* GetCoordinates that returns the numbers in the order they were written.
GetCoordinatesLatLon(query) ==
    IF CoordMatch(query)
    THEN [calls  |-> 0,
          coords |-> <<ParseFloat(CoordGroups(query)[1]),
                       ParseFloat(CoordGroups(query)[2])>>]
    ELSE [calls |-> 1, coords |-> NoCoords]

GetCoordinates(query) ==
    IF CoordMatch(query)
    THEN LET lat == ParseFloat(CoordGroups(query)[1])
             lon == ParseFloat(CoordGroups(query)[2])
         IN  [calls |-> 0, coords |-> <<lon, lat>>]
    ELSE [calls |-> 1, coords |-> NoCoords]

\* Request bodies: a missing (or empty) field, a literal "1.2, 2.1", free text.
LiteralQuery == <<"1", ".", "2", ",", " ", "2", ".", "1">>

Queries == {<<>>, LiteralQuery, <<"a">>}

\* MissingInput that tests `start` only.
MissingStartOnly(start, end) == start = <<>>

\* if (!start || !end)
MissingInput(start, end) == start = <<>> \/ end = <<>>

\* The centers the geocoder may answer in data.features[0].center.
GeocodeCenters == {<<<<771, 1>>, <<126, 1>>>>}

\* No outbound call of the stages is awaited.
NoFetch == [provider |-> "none", query |-> <<>>, coords |-> <<>>]

\* GeocodeRequest that never adds the proximity parameter.
GeocodeRequestNoBias(query, proximityCoords) ==
    [provider |-> "geocoding", query |-> query, coords |-> <<>>]

\* Lines 34-39: the geocoding call for `query`; the URL carries
\* &proximity=lon,lat when proximityCoords is given.
GeocodeRequest(query, proximityCoords) ==
    [provider |-> "geocoding", query |-> query,
     coords   |-> IF proximityCoords = NoCoords THEN <<>>
                  ELSE <<proximityCoords[1], proximityCoords[2]>>]

\* Lines 119-120: the directions call from the start to the end.
DirectionsRequest(from, dest) ==
    [provider |-> "directions", query |-> <<>>,
     coords   |-> <<from[1], from[2], dest[1], dest[2]>>]

\* WeatherRequest for the start of the trip.
WeatherRequestAtStart(from, dest) ==
    [provider |-> "weather", query |-> <<>>, coords |-> <<from[1], from[2]>>]

\* Lines 128 and 100-102: getGoogleWeather(endCoords[0], endCoords[1]).
WeatherRequest(from, dest) ==
    [provider |-> "weather", query |-> <<>>, coords |-> <<dest[1], dest[2]>>]

\* Lines 112-120 up to the first wait of the handler: validation, then
\* getCoordinates(start), then getCoordinates(end): "done" when the request
\* is refused, else the outbound call the handler waits for.
FirstWait(start, end) ==
    IF MissingInput(start, end) THEN "done"
    ELSE IF GetCoordinates(start).calls > 0 THEN "geoStart"
    ELSE IF GetCoordinates(end).calls > 0 THEN "geoEnd"
    ELSE "routing"

\* Coordinates [lon, lat].  P1 and P3 lie in one grid cell, P2 in the next.
P1 == <<771234, 125678>>

P2 == <<771236, 125679>>

P3 == <<771231, 125681>>

\* `${lon.toFixed(3)},${lat.toFixed(3)}`
GridKey(coord) == <<ToFixed3(coord[1]), ToFixed3(coord[2])>>

GridKeys == {GridKey(P1), GridKey(P2), GridKey(P3)}

\* Routes of the directions provider: duration in seconds, length in 1/100
\* km, and along[k], the point turf.along gives at distance (k-1) * 0.3 km.
\* legs tells whether the route has its legs array (route.legs[0] is read
\* when the route's object is built).
\* RouteA has two samples in different cells; RouteB has one sample, in the
\* cell of RouteA's first; both take 10 minutes once rounded.  RouteC is a
\* route without legs.
RouteA == [duration |-> 629, lengthKm |-> 35, along |-> <<P1, P2>>, legs |-> TRUE]

RouteB == [duration |-> 600, lengthKm |-> 20, along |-> <<P3>>, legs |-> TRUE]

RouteC == [duration |-> 600, lengthKm |-> 20, along |-> <<P2>>, legs |-> FALSE]

\* RouteD has its two samples in one cell and takes 11 minutes.
RouteD == [duration |-> 660, lengthKm |-> 35, along |-> <<P1, P3>>, legs |-> TRUE]

\* The lists the directions provider may answer in routeData.routes.
RouteLists == {<<>>, <<RouteB>>, <<RouteA, RouteB>>, <<RouteC>>}

\* NoRoutesFound that tests only for a missing list.
NoRoutesFoundMissingOnly(present, routeList) == ~present

\* if (!routeData.routes || routeData.routes.length === 0); present tells
\* whether the answer has a routes field at all.
NoRoutesFound(present, routeList) == ~present \/ Len(routeList) = 0

\* name: route.legs[0].summary || ... throws a TypeError on a route without
\* legs.
TaskThrows(route) == ~route.legs

TypeErrorMessage == "Cannot read properties of undefined (reading '0')"

\* The JSON the air-quality provider answers, as far as getGoogleAirQuality
\* reads it: whether data.pollutants is there, whether it has an entry of
\* code 'pm25', whether the entry has a concentration object, and the
\* concentration's value: <<>> when it has none, else the one number.
AirQualityData(pollutants, pm25, concentration, value) ==
    [pollutants |-> pollutants, pm25 |-> pm25, concentration |-> concentration,
     value |-> value]

\* The JSON the weather provider answers, as far as getGoogleWeather reads
\* it: whether data.temperature is there, and its degrees (in 1/10 degree):
\* <<>> when it has none, else the one number.
WeatherData(temperature, degrees) ==
    [temperature |-> temperature, degrees |-> degrees]

\* What the providers answer to the handler's calls: no pollutants or a pm25
\* concentration of 40; no temperature or 34.0 degrees.
AirQualityAnswers ==
    {AirQualityData(FALSE, FALSE, FALSE, <<>>), AirQualityData(TRUE, TRUE, TRUE, <<40>>)}

WeatherAnswers == {WeatherData(FALSE, <<>>), WeatherData(TRUE, <<340>>)}

----------------------------------------------------------------------------
(* The sampling loop (lines 141-145) in the arithmetic of the program.     *)

\* IEEE 754 binary64 values, as the handler's route lengths and distances
\* have them.  A value is a whole number of units of 2^-60 km, written in
\* base 2^15 as five digits, the least significant first.
LimbBase == 32768

LimbBits == 15

Limbs == 5

SignificandBits == 53

RECURSIVE Pow2(_)
Pow2(k) == IF k = 0 THEN 1 ELSE 2 * Pow2(k - 1)

DoubleZero == [i \in 1..Limbs |-> 0]

\* Bits of x below bit s.
LowBits(x, s) ==
    [i \in 1..Limbs |->
        IF LimbBits * i <= s THEN x[i]
        ELSE IF LimbBits * (i - 1) >= s THEN 0
        ELSE x[i] % Pow2(s - LimbBits * (i - 1))]

\* The number 2^s.
PowerOfTwo(s) ==
    [i \in 1..Limbs |->
        IF s \div LimbBits = i - 1 THEN Pow2(s % LimbBits) ELSE 0]

\* Bit s of x.
BitAt(x, s) == (x[s \div LimbBits + 1] \div Pow2(s % LimbBits)) % 2

\* The number of bits of x: 0 for 0.
RECURSIVE SmallBitLength(_)
SmallBitLength(n) == IF n = 0 THEN 0 ELSE 1 + SmallBitLength(n \div 2)

BitLength(x) ==
    IF x = DoubleZero THEN 0
    ELSE LET top == CHOOSE i \in 1..Limbs :
                        x[i] # 0 /\ \A k \in (i + 1)..Limbs : x[k] = 0
         IN  LimbBits * (top - 1) + SmallBitLength(x[top])

\* The carry into digit i of x + y.
RECURSIVE CarryInto(_, _, _)
CarryInto(x, y, i) ==
    IF i = 1 THEN 0
    ELSE (x[i - 1] + y[i - 1] + CarryInto(x, y, i - 1)) \div LimbBase

\* x + y, exactly.
ExactSum(x, y) ==
    [i \in 1..Limbs |-> (x[i] + y[i] + CarryInto(x, y, i)) % LimbBase]

\* x with the bits below bit s cleared.
HighBits(x, s) == [i \in 1..Limbs |-> x[i] - LowBits(x, s)[i]]

\* x < y
RECURSIVE LessFrom(_, _, _)
LessFrom(x, y, i) ==
    IF i = 0 THEN FALSE
    ELSE IF x[i] # y[i] THEN x[i] < y[i]
    ELSE LessFrom(x, y, i - 1)

DoubleLess(x, y) == LessFrom(x, y, Limbs)

\* DoubleLeq that is strict: d < routeLengthKm.
DoubleLeqStrict(x, y) == DoubleLess(x, y)

\* d <= routeLengthKm
DoubleLeq(x, y) == ~DoubleLess(y, x)

\* Round to nearest, ties to even, of the exact value x + (a fraction of a
\* unit that is not zero iff sticky): the nearest number of SignificandBits
\* significant bits.
RoundToDouble(x, sticky) ==
    LET s    == BitLength(x) - SignificandBits
        low  == LowBits(x, s)
        half == PowerOfTwo(s - 1)
        up   == \/ DoubleLess(half, low)
                \/ low = half /\ (sticky \/ BitAt(x, s) = 1)
    IN  IF s <= 0 THEN x
        ELSE IF up THEN ExactSum(HighBits(x, s), PowerOfTwo(s))
        ELSE HighBits(x, s)

\* d += 0.3 in binary64.
DoubleAdd(x, y) == RoundToDouble(ExactSum(x, y), FALSE)

\* The quotient and remainder of n * 2^60 by 100, digit by digit from the top.
RECURSIVE DivideFrom(_, _, _)
DivideFrom(x, i, den) ==
    IF i > Limbs THEN [quotient |-> DoubleZero, remainder |-> 0]
    ELSE LET above == DivideFrom(x, i + 1, den)
             cur   == above.remainder * LimbBase + x[i]
         IN  [quotient  |-> [above.quotient EXCEPT ![i] = cur \div den],
              remainder |-> cur % den]

\* The binary64 nearest to the decimal num / den: num < LimbBase, den < 2^16.
DoubleOf(num, den) ==
    LET scaled == [i \in 1..Limbs |-> IF i = Limbs THEN num ELSE 0]
        div    == DivideFrom(scaled, 1, den)
    IN  RoundToDouble(div.quotient, div.remainder # 0)

\* The literal 0.3 of the loop.
StepKm == DoubleOf(3, 10)

\* for (let d = 0; d <= routeLengthKm; d += 0.3) sampleCoords.push(along(d)):
\* the distances d of the samples.
RECURSIVE SamplingLoop(_, _, _)
SamplingLoop(d, routeLengthKm, distances) ==
    IF DoubleLeq(d, routeLengthKm)
    THEN SamplingLoop(DoubleAdd(d, StepKm), routeLengthKm, Append(distances, d))
    ELSE distances

\* The distances sampled on a route of lengthKm / 100 km.
SampleDistances(lengthKm) == SamplingLoop(DoubleZero, DoubleOf(lengthKm, 100), <<>>)

\* The lengths of the routes of the model, and the number of samples the
\* loop takes on each, computed once.
RouteLengths == {20, 35}

SampleCounts == [lengthKm \in RouteLengths |-> Len(SampleDistances(lengthKm))]

\* for (let d = 0; d <= routeLengthKm; d += 0.3) sampleCoords.push(along(d))
SampleCoords(route) == [k \in 1..SampleCounts[route.lengthKm] |-> route.along[k]]

\* Math.round(route.duration / 60)
DurationMins(route) == MathRound(route.duration, 60)

----------------------------------------------------------------------------
(* The provider clients and the cache (lines 55-106).                      *)

\* The value `undefined` where a reading is expected.
Undefined == 0 - 3

\* Lines 67-77: let pm25 = 15; if (data.pollutants) { pm25Data = the entry of
\* code 'pm25'; if (pm25Data?.concentration) pm25 = pm25Data.concentration.value }
\* A concentration object without a value gives pm25 = undefined.
GetGoogleAirQuality(data) ==
    IF data.pollutants /\ data.pm25 /\ data.concentration
    THEN IF data.value = <<>> THEN Undefined ELSE data.value[1]
    ELSE 15

\* GetGoogleWeather with || in the place of ??: 0 degrees falls back to 25.
GetGoogleWeatherOr(data) ==
    IF data.temperature /\ data.degrees # <<>> /\ data.degrees # <<0>>
    THEN data.degrees[1]
    ELSE 250

\* Line 105: data.temperature?.degrees ?? 25
GetGoogleWeather(data) ==
    IF data.temperature /\ data.degrees # <<>> THEN data.degrees[1] ELSE 250

\* A lookup that waits for the provider.
Pending == 0 - 1

\* A lookup of a request that has already been answered: its reading is dropped.
Settled == 0 - 2

\* GetCachedAQI that never finds the key: every lookup calls the provider.
GetCachedAQINoHit(cache, coord) == Pending

\* getCachedAQI up to its await: the stored reading on a hit; on a miss the
\* provider is called and the lookup waits.
GetCachedAQI(cache, coord) ==
    IF GridKey(coord) \in DOMAIN cache THEN cache[GridKey(coord)] ELSE Pending

\* GetCachedAQIReturn that returns the reading the cache holds for the key
\* when another lookup stored one in the meantime.
GetCachedAQIReturnStored(cache, key, pm25) ==
    IF key \in DOMAIN cache THEN cache[key] ELSE pm25

\* Lines 88-90: const pm25 = await getGoogleAirQuality(lon, lat); ...;
\* return pm25: the lookup's own reading, whatever the cache holds by then.
GetCachedAQIReturn(cache, key, pm25) == pm25

\* aqiCache.set(gridKey, pm25)
CacheSet(cache, key, pm25) ==
    [k \in DOMAIN cache \cup {key} |-> IF k = key THEN pm25 ELSE cache[k]]

\* sampleCoords.map(([lon, lat]) => getCachedAQI(lon, lat)) for every route.
FanOut(cache, routeList) ==
    [i \in 1..Len(routeList) |->
        [j \in 1..Len(SampleCoords(routeList[i])) |->
            GetCachedAQI(cache, SampleCoords(routeList[i])[j])]]

\* All lookups <<route, sample>> of a fan-out.
Lookups(values) == UNION {{<<i, j>> : j \in DOMAIN values[i]} : i \in DOMAIN values}

----------------------------------------------------------------------------
(* Scoring one route and ranking (lines 131-184).                          *)

RECURSIVE SumSeq(_)
\* pm25Values.reduce((sum, v) => sum + v, 0)
SumSeq(seq) == IF seq = <<>> THEN 0 ELSE seq[1] + SumSeq(Tail(seq))

NoRoute == [id |-> 0 - 1, durationMins |-> 0, healthScore |-> 0, pm25 |-> 0,
            tempCelsius |-> 0]

\* The readings of the distinct grid cells of the samples: the first reading
\* of each cell.
DistinctCellReadings(route, values) ==
    LET keys  == [j \in DOMAIN values |-> GridKey(SampleCoords(route)[j])]
        first == {j \in DOMAIN values : \A k \in 1..(j - 1) : keys[k] # keys[j]}
    IN  SelectSeq([j \in DOMAIN values |-> IF j \in first THEN values[j] ELSE 0 - 1],
                  LAMBDA v : v >= 0)

\* ScoredRoute that averages over the distinct grid cells of the samples.
ScoredRouteDistinctCells(index, route, values, temp, halfDown) ==
    LET cells == DistinctCellReadings(route, values)
    IN  [id           |-> index - 1,
         durationMins |-> DurationMins(route),
         healthScore  |-> HealthScore(SumSeq(cells), Len(cells), temp,
                                      DurationMins(route), halfDown),
         pm25         |-> MathRound(SumSeq(cells), Len(cells)),
         tempCelsius  |-> temp]

\* The object a route's task returns; id stands for `route-${index}`, with the
\* zero-based index of the code.
ScoredRoute(index, route, values, temp, halfDown) ==
    [id           |-> index - 1,
     durationMins |-> DurationMins(route),
     healthScore  |-> HealthScore(SumSeq(values), Len(values), temp,
                                  DurationMins(route), halfDown),
     pm25         |-> MathRound(SumSeq(values), Len(values)),
     tempCelsius  |-> temp]

\* AllResolved that waits for the first lookup only.
FirstResolved(values) == values[1] >= 0

\* Every lookup of the route has its reading.
AllResolved(values) == \A j \in DOMAIN values : values[j] >= 0

\* Array.prototype.sort with a comparator a.key - b.key is stable: the
\* indices of keys in ascending key order, equal keys in index order.
InsertIndex(sorted, n, keys) ==
    LET pos == Cardinality({p \in DOMAIN sorted : keys[sorted[p]] <= keys[n]})
    IN  SubSeq(sorted, 1, pos) \o <<n>> \o SubSeq(sorted, pos + 1, Len(sorted))

RECURSIVE SortPrefix(_, _)
SortPrefix(keys, n) ==
    IF n = 0 THEN <<>> ELSE InsertIndex(SortPrefix(keys, n - 1), n, keys)

StableSortIndices(keys) == SortPrefix(keys, Len(keys))

\* SortByDuration with the comparator of the health ranking.
SortByDurationWrongKey(processed) ==
    LET order == StableSortIndices([i \in DOMAIN processed |-> 0 - processed[i].healthScore])
    IN  [p \in DOMAIN processed |-> processed[order[p]]]

\* [...processedRoutes].sort((a, b) => a.durationMins - b.durationMins)
SortByDuration(processed) ==
    LET order == StableSortIndices([i \in DOMAIN processed |-> processed[i].durationMins])
    IN  [p \in DOMAIN processed |-> processed[order[p]]]

\* SortByHealth with the comparator a.healthScore - b.healthScore.
SortByHealthAscending(processed) ==
    LET order == StableSortIndices([i \in DOMAIN processed |-> processed[i].healthScore])
    IN  [p \in DOMAIN processed |-> processed[order[p]]]

\* [...processedRoutes].sort((a, b) => b.healthScore - a.healthScore)
SortByHealth(processed) ==
    LET order == StableSortIndices([i \in DOMAIN processed |-> 0 - processed[i].healthScore])
    IN  [p \in DOMAIN processed |-> processed[order[p]]]

NoResponse == [status |-> 0, error |-> "", fastest |-> NoRoute,
               healthiest |-> NoRoute, secondHealthiest |-> NoRoute]

\* res.status(code).json({ error })
ErrorResponse(code, error) == [NoResponse EXCEPT !.status = code, !.error = error]

\* ErrorBody that never passes the error's message on.
ErrorBodyGeneric(message) == "Failed to fetch route data."

\* error.message || 'Failed to fetch route data.'
ErrorBody(message) ==
    IF message = "" THEN "Failed to fetch route data." ELSE message

\* RankedResponse without the || fallbacks: a missing place stays empty.
RankedResponseNoFallback(processed) ==
    LET byHealth == SortByHealth(processed)
    IN  [status |-> 200, error |-> "", fastest |-> SortByDuration(processed)[1],
         healthiest |-> IF Len(byHealth) >= 1 THEN byHealth[1] ELSE NoRoute,
         secondHealthiest |-> IF Len(byHealth) >= 2 THEN byHealth[2] ELSE NoRoute]

\* RankedResponse whose second place repeats the first element of the
\* descending order.
RankedResponseRepeatsFirst(processed) ==
    LET byHealth == SortByHealth(processed)
    IN  [status |-> 200, error |-> "", fastest |-> SortByDuration(processed)[1],
         healthiest |-> byHealth[1], secondHealthiest |-> byHealth[1]]

\* res.json({fastest, healthiest || fastest, secondHealthiest || healthiest})
RankedResponse(processed) ==
    LET fastestRoute    == SortByDuration(processed)[1]
        byHealth        == SortByHealth(processed)
        healthiestRoute == IF Len(byHealth) >= 1 THEN byHealth[1] ELSE fastestRoute
        secondHealthiestRoute ==
            IF Len(byHealth) >= 2 THEN byHealth[2] ELSE healthiestRoute
    IN  [status |-> 200, error |-> "", fastest |-> fastestRoute,
         healthiest |-> healthiestRoute,
         secondHealthiest |-> secondHealthiestRoute]

----------------------------------------------------------------------------
(* The handler of POST /api/routes (lines 111-190).                        *)

EmptyCache == [k \in {} |-> 0]

HandlerInit ==
    /\ aqiCache = EmptyCache
    /\ pc = [r \in Reqs |-> "idle"]
    /\ endQuery = [r \in Reqs |-> <<>>]
    /\ startCoords = [r \in Reqs |-> NoCoords]
    /\ endCoords = [r \in Reqs |-> NoCoords]
    /\ fetching = [r \in Reqs |-> NoFetch]
    /\ routes = [r \in Reqs |-> <<>>]
    /\ tempCelsius = [r \in Reqs |-> 0]
    /\ pm25Values = [r \in Reqs |-> <<>>]
    /\ processedRoutes = [r \in Reqs |-> <<>>]
    /\ doneOrder = [r \in Reqs |-> <<>>]
    /\ response = [r \in Reqs |-> NoResponse]

\* Provider calls of request r that have not been answered yet.
PendingLookups(r) ==
    {ij \in Lookups(pm25Values[r]) : pm25Values[r][ij[1]][ij[2]] = Pending}

\* No handler run of r is left: a new request may take its place in the model.
Quiescent(r) == pc[r] \in {"idle", "done"} /\ PendingLookups(r) = {}

\* The locals of a request that has been answered are dropped; the lookups
\* still waiting for the provider stay, the others keep no reading.
DropReadings(values) ==
    [i \in DOMAIN values |->
        [j \in DOMAIN values[i] |->
            IF values[i][j] = Pending THEN Pending ELSE Settled]]

\* The lookups of an answered request that still wait, or nothing when none
\* does: the request is then over.
Remaining(values) ==
    IF \E ij \in Lookups(values) : values[ij[1]][ij[2]] = Pending
    THEN DropReadings(values)
    ELSE <<>>

\* The messages of the errors a rejected fetch (or json()) may carry.
RejectMessages == {"", "fetch failed"}

\* The handler awaits no stage call of r any more; the coordinates are not
\* used again.
ClearStage(r) ==
    /\ startCoords' = [startCoords EXCEPT ![r] = NoCoords]
    /\ endCoords' = [endCoords EXCEPT ![r] = NoCoords]
    /\ fetching' = [fetching EXCEPT ![r] = NoFetch]

\* res.status(code).json({error}) of a request that computed no ranking.
Fail(r, code, error) ==
    /\ pc' = [pc EXCEPT ![r] = "done"]
    /\ response' = [response EXCEPT ![r] = ErrorResponse(code, error)]
    /\ endQuery' = [endQuery EXCEPT ![r] = <<>>]
    /\ ClearStage(r)
    /\ tempCelsius' = [tempCelsius EXCEPT ![r] = 0]
    /\ processedRoutes' = [processedRoutes EXCEPT ![r] = <<>>]
    /\ doneOrder' = [doneOrder EXCEPT ![r] = <<>>]

\* Lines 112-120: validation, the literal-coordinate fast path of
\* getCoordinates, and the first outbound call.
Receive(r, start, end) ==
    /\ Quiescent(r)
    /\ routes' = [routes EXCEPT ![r] = <<>>]
    /\ pm25Values' = [pm25Values EXCEPT ![r] = <<>>]
    /\ IF MissingInput(start, end)
       THEN Fail(r, 400, "Start and end locations required.")
       ELSE /\ response' = [response EXCEPT ![r] = NoResponse]
            /\ tempCelsius' = [tempCelsius EXCEPT ![r] = 0]
            /\ processedRoutes' = [processedRoutes EXCEPT ![r] = <<>>]
            /\ doneOrder' = [doneOrder EXCEPT ![r] = <<>>]
            /\ pc' = [pc EXCEPT ![r] = FirstWait(start, end)]
            /\ endQuery' = [endQuery EXCEPT ![r] =
                                IF FirstWait(start, end) = "geoStart"
                                THEN end ELSE <<>>]
            /\ LET from == GetCoordinates(start).coords
                   dest == GetCoordinates(end).coords
               IN  /\ startCoords' = [startCoords EXCEPT ![r] = from]
                   /\ endCoords' = [endCoords EXCEPT ![r] =
                          IF FirstWait(start, end) = "routing" THEN dest
                          ELSE NoCoords]
                   /\ fetching' = [fetching EXCEPT ![r] =
                          IF FirstWait(start, end) = "geoStart"
                          THEN GeocodeRequest(start, NoCoords)
                          ELSE IF FirstWait(start, end) = "geoEnd"
                          THEN GeocodeRequest(end, from)
                          ELSE DirectionsRequest(from, dest)]
    /\ UNCHANGED <<aqiCache, harnessVars>>

\* What the geocoding call may come to: a match, no features, an error
\* payload (data.message), a failed fetch.
GeocodeOutcomes == {"match", "nomatch", "message", "reject"}

\* GeocodeFails that lets an answer without features through.
GeocodeFailsUnlessEmpty(outcome) == outcome \in {"message", "reject"}

\* Lines 38-42: the fetch or json() rejects, the answer has a message, or it
\* has no features.
GeocodeFails(outcome) == outcome # "match"

\* The message of the error getCoordinates throws.
GeocodeError(outcome, message) ==
    IF outcome = "message" THEN "Mapbox API Error"
    ELSE IF outcome = "nomatch" THEN "Location not found"
    ELSE message

\* Lines 39-46 for `start`, then line 117.
GeocodeStartResponse(r, outcome, center, message) ==
    /\ pc[r] = "geoStart"
    /\ IF ~GeocodeFails(outcome)
       THEN /\ pc' = [pc EXCEPT ![r] =
                         IF GetCoordinates(endQuery[r]).calls > 0
                         THEN "geoEnd" ELSE "routing"]
            /\ endQuery' = [endQuery EXCEPT ![r] = <<>>]
            /\ startCoords' = [startCoords EXCEPT ![r] = center]
            /\ endCoords' = [endCoords EXCEPT ![r] =
                                 GetCoordinates(endQuery[r]).coords]
            /\ fetching' = [fetching EXCEPT ![r] =
                                IF GetCoordinates(endQuery[r]).calls > 0
                                THEN GeocodeRequest(endQuery[r], center)
                                ELSE DirectionsRequest(center,
                                         GetCoordinates(endQuery[r]).coords)]
            /\ UNCHANGED <<response, tempCelsius, processedRoutes, doneOrder>>
       ELSE Fail(r, 500, ErrorBody(GeocodeError(outcome, message)))
    /\ UNCHANGED <<aqiCache, routes, pm25Values, harnessVars>>

\* Lines 39-46 for `end`, then lines 119-120.
GeocodeEndResponse(r, outcome, center, message) ==
    /\ pc[r] = "geoEnd"
    /\ IF ~GeocodeFails(outcome)
       THEN /\ pc' = [pc EXCEPT ![r] = "routing"]
            /\ endCoords' = [endCoords EXCEPT ![r] = center]
            /\ fetching' = [fetching EXCEPT ![r] =
                                DirectionsRequest(startCoords[r], center)]
            /\ UNCHANGED <<endQuery, startCoords, response, tempCelsius,
                           processedRoutes, doneOrder>>
       ELSE Fail(r, 500, ErrorBody(GeocodeError(outcome, message)))
    /\ UNCHANGED <<aqiCache, routes, pm25Values, harnessVars>>

\* Lines 121-128: the directions answer.
DirectionsResponse(r, present, routeList) ==
    /\ pc[r] = "routing"
    /\ IF NoRoutesFound(present, routeList)
       THEN Fail(r, 404, "No driving routes found.") /\ UNCHANGED routes
       ELSE /\ pc' = [pc EXCEPT ![r] = "weather"]
            /\ routes' = [routes EXCEPT ![r] = routeList]
            /\ fetching' = [fetching EXCEPT ![r] =
                                WeatherRequest(startCoords[r], endCoords[r])]
            /\ UNCHANGED <<endQuery, startCoords, endCoords, response,
                           tempCelsius, processedRoutes, doneOrder>>
    /\ UNCHANGED <<aqiCache, pm25Values, harnessVars>>

\* fetch(directionsUrl) or routeRes.json() throws.
DirectionsReject(r, message) ==
    /\ pc[r] = "routing"
    /\ Fail(r, 500, ErrorBody(message))
    /\ UNCHANGED <<aqiCache, routes, pm25Values, harnessVars>>

\* PromiseAll that collects the results in the order the tasks completed.
PromiseAllByCompletion(results, order) == [p \in DOMAIN order |-> results[order[p]]]

\* await Promise.all(tasks): the results in the order of the tasks, whatever
\* the order in which they completed.
PromiseAll(results, order) == results

\* AllTasksDone that is satisfied by the first task that completes.
AnyTaskDone(order, routeList) == Len(order) >= 1

\* await Promise.all(...) resumes the handler: every task of routes.map has
\* completed.
AllTasksDone(order, routeList) == Len(order) = Len(routeList)

\* The routes all of whose lookups have their reading, in index order.
CompletedRoutes(values) ==
    SelectSeq([i \in DOMAIN values |-> i], LAMBDA i : AllResolved(values[i]))

\* Lines 177-184: every task has completed; the ranking is sent.  The routes
\* and readings of the request are not used again.
SendRanking(r, processed, order) ==
    /\ pc' = [pc EXCEPT ![r] = "done"]
    /\ response' = [response EXCEPT ![r] = RankedResponse(PromiseAll(processed, order))]
    /\ processedRoutes' = [processedRoutes EXCEPT ![r] = processed]
    /\ doneOrder' = [doneOrder EXCEPT ![r] = order]
    /\ pm25Values' = [pm25Values EXCEPT ![r] = <<>>]
    /\ tempCelsius' = [tempCelsius EXCEPT ![r] = 0]
    /\ ClearStage(r)
    /\ UNCHANGED <<routes, endQuery>>

\* Lines 128-184 up to the first wait: the weather answer, then the fan-out
\* over routes and samples.  A route whose samples all hit the cache is scored
\* at once; if every route is, the ranking is sent at once.
WeatherResponse(r, answer, halfDown) ==
    /\ pc[r] = "weather"
    /\ LET temp      == GetGoogleWeather(answer)
           values    == FanOut(aqiCache, routes[r])
           order     == CompletedRoutes(values)
           processed == [i \in DOMAIN values |->
                            IF AllResolved(values[i]) /\ ~TaskThrows(routes[r][i])
                            THEN ScoredRoute(i, routes[r][i], values[i], temp, halfDown)
                            ELSE NoRoute]
       IN  IF \E i \in DOMAIN values :
                 AllResolved(values[i]) /\ TaskThrows(routes[r][i])
           THEN /\ Fail(r, 500, ErrorBody(TypeErrorMessage))
                /\ pm25Values' = [pm25Values EXCEPT ![r] = Remaining(values)]
                /\ routes' = [routes EXCEPT ![r] =
                                 IF Remaining(values) = <<>> THEN <<>> ELSE routes[r]]
           ELSE IF AllTasksDone(order, routes[r])
           THEN SendRanking(r, processed, order)
           ELSE /\ pc' = [pc EXCEPT ![r] = "scoring"]
                /\ tempCelsius' = [tempCelsius EXCEPT ![r] = temp]
                /\ pm25Values' = [pm25Values EXCEPT ![r] = values]
                /\ processedRoutes' = [processedRoutes EXCEPT ![r] = processed]
                /\ doneOrder' = [doneOrder EXCEPT ![r] = order]
                /\ ClearStage(r)
                /\ UNCHANGED <<response, routes, endQuery>>
    /\ UNCHANGED <<aqiCache, harnessVars>>

\* fetch or response.json() of getGoogleWeather throws.
WeatherReject(r, message) ==
    /\ pc[r] = "weather"
    /\ Fail(r, 500, ErrorBody(message))
    /\ routes' = [routes EXCEPT ![r] = <<>>]
    /\ UNCHANGED <<aqiCache, pm25Values, harnessVars>>

\* Lines 67-77 and 89-90, then lines 152-184: the provider answers lookup
\* <<i, j>>; the reading is stored in the cache; if it was the route's last
\* lookup the route's task ends: it throws, and the request is answered 500,
\* or it returns the scored route, and if that was the last route the ranking
\* is sent.  A request already answered (500) only stores the reading.
AirQualityResponse(r, i, j, answer, halfDown) ==
    /\ <<i, j>> \in PendingLookups(r)
    /\ LET pm25      == GetGoogleAirQuality(answer)
           key       == GridKey(SampleCoords(routes[r][i])[j])
           values    == [pm25Values[r] EXCEPT ![i][j] =
                            GetCachedAQIReturn(aqiCache, key, pm25)]
           routeDone == AllResolved(values[i])
           processed == IF routeDone
                        THEN [processedRoutes[r] EXCEPT ![i] =
                                 ScoredRoute(i, routes[r][i], values[i],
                                             tempCelsius[r], halfDown)]
                        ELSE processedRoutes[r]
           order     == IF routeDone THEN Append(doneOrder[r], i) ELSE doneOrder[r]
       IN  /\ aqiCache' = CacheSet(aqiCache, key, pm25)
           /\ IF pc[r] # "scoring"
              THEN /\ pm25Values' = [pm25Values EXCEPT ![r] = Remaining(values)]
                   /\ routes' = [routes EXCEPT ![r] =
                                    IF Remaining(values) = <<>> THEN <<>> ELSE routes[r]]
                   /\ UNCHANGED <<pc, response, endQuery, stageVars, tempCelsius,
                                  processedRoutes, doneOrder>>
              ELSE IF routeDone /\ TaskThrows(routes[r][i])
              THEN /\ Fail(r, 500, ErrorBody(TypeErrorMessage))
                   /\ pm25Values' = [pm25Values EXCEPT ![r] = Remaining(values)]
                   /\ routes' = [routes EXCEPT ![r] =
                                    IF Remaining(values) = <<>> THEN <<>> ELSE routes[r]]
              ELSE IF routeDone /\ AllTasksDone(order, routes[r])
              THEN SendRanking(r, processed, order)
              ELSE /\ pm25Values' = [pm25Values EXCEPT ![r] = values]
                   /\ processedRoutes' = [processedRoutes EXCEPT ![r] = processed]
                   /\ doneOrder' = [doneOrder EXCEPT ![r] = order]
                   /\ UNCHANGED <<pc, response, routes, endQuery, stageVars,
                                  tempCelsius>>
    /\ UNCHANGED harnessVars

\* CacheAfterReject that stores the fallback reading for the key.
CacheAfterRejectFallback(cache, key) == CacheSet(cache, key, 15)

\* Lines 88-89 when the await of line 88 throws: aqiCache.set is not
\* reached and the cache stays as it is.
CacheAfterReject(cache, key) == cache

\* HandlerAwaits that holds of a request already answered too.
HandlerAwaitsAlways(r) == TRUE

\* HandlerAwaits of a handler whose catch block no rejection reaches.
HandlerAwaitsNever(r) == FALSE

\* The handler of r still awaits Promise.all (line 131): a rejection reaches
\* its catch block.  After the first rejection the handler has returned and
\* a later rejection is absorbed by Promise.all.
HandlerAwaits(r) == pc[r] = "scoring"

\* fetch or response.json() of getGoogleAirQuality throws for lookup <<i, j>>:
\* getCachedAQI rejects before aqiCache.set; the first rejection of a request
\* reaches the catch block, which answers 500.
AirQualityReject(r, i, j, message) ==
    /\ <<i, j>> \in PendingLookups(r)
    /\ LET values == [pm25Values[r] EXCEPT ![i][j] = Settled]
       IN  /\ pm25Values' = [pm25Values EXCEPT ![r] = Remaining(values)]
           /\ routes' = [routes EXCEPT ![r] =
                            IF Remaining(values) = <<>> THEN <<>> ELSE routes[r]]
    /\ IF HandlerAwaits(r)
       THEN Fail(r, 500, ErrorBody(message))
       ELSE UNCHANGED <<pc, response, endQuery, stageVars, tempCelsius,
                        processedRoutes, doneOrder>>
    /\ aqiCache' = CacheAfterReject(aqiCache, GridKey(SampleCoords(routes[r][i])[j]))
    /\ UNCHANGED harnessVars

Next ==
    \/ \E r \in Reqs, start \in Queries, end \in Queries : Receive(r, start, end)
    \/ \E r \in Reqs, outcome \in GeocodeOutcomes, center \in GeocodeCenters,
          message \in RejectMessages :
           GeocodeStartResponse(r, outcome, center, message)
    \/ \E r \in Reqs, outcome \in GeocodeOutcomes, center \in GeocodeCenters,
          message \in RejectMessages :
           GeocodeEndResponse(r, outcome, center, message)
    \/ \E r \in Reqs, present \in BOOLEAN, routeList \in RouteLists :
           DirectionsResponse(r, present, routeList)
    \/ \E r \in Reqs, message \in RejectMessages : DirectionsReject(r, message)
    \/ \E r \in Reqs, answer \in WeatherAnswers, halfDown \in BOOLEAN :
           WeatherResponse(r, answer, halfDown)
    \/ \E r \in Reqs, message \in RejectMessages : WeatherReject(r, message)
    \/ \E r \in Reqs : \E ij \in PendingLookups(r), answer \in AirQualityAnswers,
                          halfDown \in BOOLEAN :
           AirQualityResponse(r, ij[1], ij[2], answer, halfDown)
    \/ \E r \in Reqs : \E ij \in PendingLookups(r), message \in RejectMessages :
           AirQualityReject(r, ij[1], ij[2], message)

----------------------------------------------------------------------------
(* Ranking harness: the ranking of lines 177-184 applied to a              *)
(* processedRoutes array drawn from a bounded grid.                        *)

DurationGrid == {10, 15, 20}

HealthGrid == {0, 62, 88}

RankInputs ==
    UNION {{[i \in 1..n |-> [id |-> i - 1, durationMins |-> f[i][1],
                             healthScore |-> f[i][2], pm25 |-> 15,
                             tempCelsius |-> 250]] :
               f \in [1..n -> DurationGrid \X HealthGrid]} : n \in 1..MaxRoutes}

InitRank ==
    /\ rankIn \in RankInputs
    /\ rankOut = NoResponse

RankIdle == rankIn = <<>> /\ rankOut = NoResponse

RankRoutes ==
    /\ rankOut = NoResponse
    /\ rankOut' = RankedResponse(rankIn)
    /\ UNCHANGED rankIn

----------------------------------------------------------------------------
(* Geocoding harness: lines 112-120 up to the handler's first wait, on a   *)
(* start text drawn from every text of up to MaxQueryLen characters and an *)
(* end text of the request bodies.                                         *)

GeoQueries == UNION {[1..n -> Chars] : n \in 0..MaxQueryLen}

GeoInputs == [start : GeoQueries, end : Queries]

InitGeo ==
    /\ geoIn \in GeoInputs
    /\ geoOut = <<>>

GeoIdle == geoIn = [start |-> <<>>, end |-> <<>>] /\ geoOut = <<>>

ResolveEndpoints ==
    /\ geoOut = <<>>
    /\ geoOut' = <<[wait  |-> FirstWait(geoIn.start, geoIn.end),
                    start |-> GetCoordinates(geoIn.start),
                    end   |-> GetCoordinates(geoIn.end)]>>
    /\ UNCHANGED geoIn

----------------------------------------------------------------------------
(* Ordering harness: one request at its weather stage, with the cache, the *)
(* weather answer, the answer of every pollution lookup and the rounding   *)
(* of every score fixed beforehand; only the order in which the lookups    *)
(* are answered is left open.                                              *)

\* The lookups <<route, sample>> of the harness's route lists.
OrderLookups == {<<1, 1>>, <<1, 2>>, <<2, 1>>}

OrderCaches ==
    {EmptyCache, CacheSet(EmptyCache, GridKey(P1), 15),
     CacheSet(EmptyCache, GridKey(P2), 40)}

OrderInputs ==
    [routes   : {<<RouteA, RouteB>>, <<RouteD, RouteB>>},
     cache    : OrderCaches,
     readings : [OrderLookups -> AirQualityAnswers],
     weather  : WeatherAnswers,
     halfDown : BOOLEAN]

\* Request 1 has its routes and waits for the weather of its destination;
\* the cache is the one of the input.
InitOrder ==
    /\ orderIn \in {<<in>> : in \in OrderInputs}
    /\ aqiCache = orderIn[1].cache
    /\ pc = [r \in Reqs |-> IF r = 1 THEN "weather" ELSE "idle"]
    /\ endQuery = [r \in Reqs |-> <<>>]
    /\ startCoords = [r \in Reqs |->
                         IF r = 1 THEN GetCoordinates(LiteralQuery).coords
                         ELSE NoCoords]
    /\ endCoords = [r \in Reqs |->
                       IF r = 1 THEN CHOOSE c \in GeocodeCenters : TRUE
                       ELSE NoCoords]
    /\ fetching = [r \in Reqs |->
                      IF r = 1
                      THEN WeatherRequest(GetCoordinates(LiteralQuery).coords,
                                          CHOOSE c \in GeocodeCenters : TRUE)
                      ELSE NoFetch]
    /\ routes = [r \in Reqs |-> IF r = 1 THEN orderIn[1].routes ELSE <<>>]
    /\ tempCelsius = [r \in Reqs |-> 0]
    /\ pm25Values = [r \in Reqs |-> <<>>]
    /\ processedRoutes = [r \in Reqs |-> <<>>]
    /\ doneOrder = [r \in Reqs |-> <<>>]
    /\ response = [r \in Reqs |-> NoResponse]

\* The weather answer of the input arrives.
OrderedWeather == WeatherResponse(1, orderIn[1].weather, orderIn[1].halfDown)

\* The answer of the input to one of the lookups in flight arrives.
OrderedReading ==
    \E ij \in PendingLookups(1) :
        AirQualityResponse(1, ij[1], ij[2], orderIn[1].readings[ij],
                           orderIn[1].halfDown)

----------------------------------------------------------------------------
(* Sampling harness: the loop of lines 141-145 on a route length drawn     *)
(* from the decimals 0.00, 0.01, ... km up to MaxLength / 100 km.          *)

MaxLength == 1000

InitSample ==
    /\ sampleIn \in 0..MaxLength
    /\ sampleOut = <<>>

TakeSamples ==
    /\ sampleOut = <<>>
    /\ sampleOut' = <<SampleDistances(sampleIn)>>
    /\ UNCHANGED sampleIn

----------------------------------------------------------------------------
(* Client harness: getGoogleAirQuality and getGoogleWeather from the       *)
(* provider's JSON on, on every shape of the JSON the functions tell       *)
(* apart.                                                                  *)

\* Concentration values run from 0 to MaxReading; degrees from -MaxDegrees
\* to MaxDegrees, in whole degrees.
MaxReading == 60

MaxDegrees == 45

AirQualityPayloads ==
    {AirQualityData(FALSE, FALSE, FALSE, <<>>),
     AirQualityData(TRUE, FALSE, FALSE, <<>>),
     AirQualityData(TRUE, TRUE, FALSE, <<>>),
     AirQualityData(TRUE, TRUE, TRUE, <<>>)}
    \cup {AirQualityData(TRUE, TRUE, TRUE, <<v>>) : v \in 0..MaxReading}

WeatherPayloads ==
    {WeatherData(FALSE, <<>>), WeatherData(TRUE, <<>>)}
    \cup {WeatherData(TRUE, <<10 * t>>) : t \in (0 - MaxDegrees)..MaxDegrees}

ClientInputs ==
    [fn : {"getGoogleAirQuality"}, data : AirQualityPayloads]
    \cup [fn : {"getGoogleWeather"}, data : WeatherPayloads]

InitClient ==
    /\ clientIn \in {<<in>> : in \in ClientInputs}
    /\ clientOut = <<>>

ReturnAirQuality ==
    /\ clientOut = <<>>
    /\ clientIn[1].fn = "getGoogleAirQuality"
    /\ clientOut' = <<GetGoogleAirQuality(clientIn[1].data)>>
    /\ UNCHANGED clientIn

ReturnWeather ==
    /\ clientOut = <<>>
    /\ clientIn[1].fn = "getGoogleWeather"
    /\ clientOut' = <<GetGoogleWeather(clientIn[1].data)>>
    /\ UNCHANGED clientIn

----------------------------------------------------------------------------
(* The page (src/frontend/src/App.jsx): the state of the App component and *)
(* the fetchRoutes calls whose request is out.  One action is one event    *)
(* handler run, or the rest of fetchRoutes after its awaits (lines         *)
(* 169-179), which runs without a wait in between.                         *)

MaxCalls == 2

\* The texts of an input: empty, or one of two places.
UiTexts == {"", "a", "b"}

\* useState(null) of routes
Null == <<>>

\* What makes a request fail: the server's { error } body of a 400, 404 or
\* 500 answer, or the message of a fetch that was rejected.
UiFailures == {"No driving routes found.", "Failed to fetch"}

\* setError('Please enter both start and end locations.')
MissingLocations == "Please enter both start and end locations."

\* The 200 body the server sends for the request of call c; what the page
\* uses of it is which request it answers.
RoutesOf(calls, c) == <<[call |-> c, start |-> calls[c].start, end |-> calls[c].end]>>

\* The calls whose request has not been answered.
Waiting(calls) == {c \in DOMAIN calls : calls[c].waiting}

\* useState('') of start and end, useState(null) of routes, useState(false)
\* of loading, useState('') of error (lines 54-58).
InitPage ==
    /\ uiStart = "" /\ uiEnd = ""
    /\ uiRoutes = Null
    /\ uiLoading = FALSE
    /\ uiError = ""
    /\ uiCalls = <<>>

UiIdle == InitPage

\* onChange of the first input: setStart(e.target.value)
SetStart(text) ==
    /\ uiStart' = text
    /\ UNCHANGED <<uiEnd, uiRoutes, uiLoading, uiError, uiCalls>>

\* onChange of the second input: setEnd(e.target.value)
SetEnd(text) ==
    /\ uiEnd' = text
    /\ UNCHANGED <<uiStart, uiRoutes, uiLoading, uiError, uiCalls>>

\* swapLocations (lines 145-154)
SwapLocations ==
    /\ uiStart' = uiEnd
    /\ uiEnd' = uiStart
    /\ uiRoutes' = Null
    /\ UNCHANGED <<uiLoading, uiError, uiCalls>>

\* fetchRoutes up to its first await (lines 156-164): without both texts the
\* error is set and nothing is sent; else the request goes out.
FetchRoutes ==
    IF uiStart = "" \/ uiEnd = ""
    THEN /\ uiError' = MissingLocations
         /\ UNCHANGED <<uiStart, uiEnd, uiRoutes, uiLoading, uiCalls>>
    ELSE /\ Len(uiCalls) < MaxCalls
         /\ uiLoading' = TRUE
         /\ uiError' = ""
         /\ uiRoutes' = Null
         /\ uiCalls' = Append(uiCalls, [start |-> uiStart, end |-> uiEnd,
                                        waiting |-> TRUE])
         /\ UNCHANGED <<uiStart, uiEnd>>

\* <button className="find-btn" onClick={fetchRoutes} disabled={loading}>
ClickFind == uiLoading = FALSE /\ FetchRoutes

\* onKeyDown={(e) => e.key === 'Enter' && fetchRoutes()} of either input
PressEnter == FetchRoutes

\* Lines 169-174 and 177-179: the 200 body of call c has arrived.
FetchResolves(c) ==
    /\ c \in Waiting(uiCalls)
    /\ uiRoutes' = RoutesOf(uiCalls, c)
    /\ uiLoading' = FALSE
    /\ uiCalls' = [uiCalls EXCEPT ![c].waiting = FALSE]
    /\ UNCHANGED <<uiStart, uiEnd, uiError>>

\* Lines 170 and 175-179: the request of call c failed with this message.
FetchFails(c, message) ==
    /\ c \in Waiting(uiCalls)
    /\ uiError' = message
    /\ uiLoading' = FALSE
    /\ uiCalls' = [uiCalls EXCEPT ![c].waiting = FALSE]
    /\ UNCHANGED <<uiStart, uiEnd, uiRoutes>>

----------------------------------------------------------------------------
(* Specifications.                                                         *)

OrderIdle == orderIn = <<>>

SampleIdle == sampleIn = 0 /\ sampleOut = <<>>

ClientIdle == clientIn = <<>> /\ clientOut = <<>>

\* The ordering, sampling and client harnesses at rest.
LaterIdle == OrderIdle /\ SampleIdle /\ ClientIdle /\ UiIdle

Init == HandlerInit /\ ScoreIdle /\ RankIdle /\ GeoIdle /\ LaterIdle

\* The server: any number of requests in flight at once (up to MaxReq).
Spec == Init /\ [][Next]_vars

\* The stage call request r awaits is answered or fails.
StageSettles(r) ==
    \/ \E message \in RejectMessages : DirectionsReject(r, message)
    \/ \E message \in RejectMessages : WeatherReject(r, message)
    \/ \E outcome \in GeocodeOutcomes, center \in GeocodeCenters,
          message \in RejectMessages :
           \/ GeocodeStartResponse(r, outcome, center, message)
           \/ GeocodeEndResponse(r, outcome, center, message)
    \/ \E present \in BOOLEAN, routeList \in RouteLists :
           DirectionsResponse(r, present, routeList)
    \/ \E answer \in WeatherAnswers, halfDown \in BOOLEAN :
           WeatherResponse(r, answer, halfDown)

\* The pollution lookup <<i, j>> of request r fails or is answered.
LookupSettles(r, i, j) ==
    \/ \E message \in RejectMessages : AirQualityReject(r, i, j, message)
    \/ \E answer \in AirQualityAnswers, halfDown \in BOOLEAN :
           AirQualityResponse(r, i, j, answer, halfDown)

\* Some call of request r in flight is answered or fails.
CallSettles(r) ==
    \/ StageSettles(r)
    \/ \E ij \in PendingLookups(r) : LookupSettles(r, ij[1], ij[2])

\* Every outbound provider call (fetch and json()) resolves or rejects in
\* the end; all that is used of it: a request with calls in flight is not
\* left for ever without any of them answered.
ProvidersSettle == \A r \in Reqs : WF_vars(CallSettles(r))

\* The server when requests do not overlap: a request arrives only when no
\* handler run of an earlier one is left.
ReceiveAlone(r, start, end) ==
    /\ \A q \in Reqs : Quiescent(q)
    /\ Receive(r, start, end)

NextSequential ==
    \/ \E r \in Reqs, start \in Queries, end \in Queries : ReceiveAlone(r, start, end)
    \/ \E r \in Reqs, outcome \in GeocodeOutcomes, center \in GeocodeCenters,
          message \in RejectMessages :
           GeocodeStartResponse(r, outcome, center, message)
    \/ \E r \in Reqs, outcome \in GeocodeOutcomes, center \in GeocodeCenters,
          message \in RejectMessages :
           GeocodeEndResponse(r, outcome, center, message)
    \/ \E r \in Reqs, present \in BOOLEAN, routeList \in RouteLists :
           DirectionsResponse(r, present, routeList)
    \/ \E r \in Reqs, message \in RejectMessages : DirectionsReject(r, message)
    \/ \E r \in Reqs, answer \in WeatherAnswers, halfDown \in BOOLEAN :
           WeatherResponse(r, answer, halfDown)
    \/ \E r \in Reqs, message \in RejectMessages : WeatherReject(r, message)
    \/ \E r \in Reqs : \E ij \in PendingLookups(r), answer \in AirQualityAnswers,
                          halfDown \in BOOLEAN :
           AirQualityResponse(r, ij[1], ij[2], answer, halfDown)
    \/ \E r \in Reqs : \E ij \in PendingLookups(r), message \in RejectMessages :
           AirQualityReject(r, ij[1], ij[2], message)

SpecSequential == Init /\ [][NextSequential]_vars

\* The same server with providers that answer or fail every call.
SpecLive == Init /\ [][NextSequential]_vars /\ ProvidersSettle

\* The health score as a function.
NextScore == ComputeHealthScore /\ UNCHANGED <<handlerVars, rankVars, geoVars, orderVars, sampleVars, clientVars, uiVars>>

InitScoring == HandlerInit /\ InitScore /\ RankIdle /\ GeoIdle /\ LaterIdle

SpecScore == InitScoring /\ [][NextScore]_vars

\* The ranking as a function.
NextRank == RankRoutes /\ UNCHANGED <<handlerVars, scoreVars, geoVars, orderVars, sampleVars, clientVars, uiVars>>

InitRanking == HandlerInit /\ ScoreIdle /\ InitRank /\ GeoIdle /\ LaterIdle

SpecRank == InitRanking /\ [][NextRank]_vars

\* The start of the handler as a function of the request's texts.
NextGeocode == ResolveEndpoints /\ UNCHANGED <<handlerVars, scoreVars, rankVars, orderVars, sampleVars, clientVars, uiVars>>

\* One request from its weather stage on, on fixed provider answers.
NextOrder == OrderedWeather \/ OrderedReading

InitOrdering ==
    /\ InitOrder /\ ScoreIdle /\ RankIdle /\ GeoIdle /\ SampleIdle /\ ClientIdle
    /\ UiIdle

SpecOrder == InitOrdering /\ [][NextOrder]_vars

\* The provider clients as functions of the provider's JSON.
NextClient ==
    \/ ReturnAirQuality /\ UNCHANGED <<handlerVars, scoreVars, rankVars, geoVars,
                                        orderVars, sampleVars, uiVars>>
    \/ ReturnWeather /\ UNCHANGED <<handlerVars, scoreVars, rankVars, geoVars,
                                     orderVars, sampleVars, uiVars>>

InitClients ==
    /\ HandlerInit /\ ScoreIdle /\ RankIdle /\ GeoIdle
    /\ OrderIdle /\ SampleIdle /\ InitClient /\ UiIdle

SpecClient == InitClients /\ [][NextClient]_vars

\* The sampling loop as a function of the route length.
NextSample == TakeSamples /\ UNCHANGED <<handlerVars, scoreVars, rankVars, geoVars,
                                         orderVars, clientVars, uiVars>>

InitSampling ==
    /\ HandlerInit /\ ScoreIdle /\ RankIdle /\ GeoIdle
    /\ OrderIdle /\ InitSample /\ ClientIdle /\ UiIdle

SpecSample == InitSampling /\ [][NextSample]_vars

InitGeocoding == HandlerInit /\ ScoreIdle /\ RankIdle /\ InitGeo /\ LaterIdle

SpecGeocode == InitGeocoding /\ [][NextGeocode]_vars

\* The server and the harnesses, which the page's events leave alone.
serverVars == <<handlerVars, scoreVars, rankVars, geoVars, orderVars, sampleVars,
                clientVars>>

\* The page: the user's events and the answers of the server, in any order.
NextUi ==
    \/ \E text \in UiTexts : SetStart(text) /\ UNCHANGED serverVars
    \/ \E text \in UiTexts : SetEnd(text) /\ UNCHANGED serverVars
    \/ SwapLocations /\ UNCHANGED serverVars
    \/ ClickFind /\ UNCHANGED serverVars
    \/ PressEnter /\ UNCHANGED serverVars
    \/ \E c \in 1..MaxCalls : FetchResolves(c) /\ UNCHANGED serverVars
    \/ \E c \in 1..MaxCalls, message \in UiFailures :
           FetchFails(c, message) /\ UNCHANGED serverVars

InitUi ==
    /\ HandlerInit /\ ScoreIdle /\ RankIdle /\ GeoIdle
    /\ OrderIdle /\ SampleIdle /\ ClientIdle /\ InitPage

SpecUi == InitUi /\ [][NextUi]_vars

----------------------------------------------------------------------------
(* Properties of the cache (getCachedAQI, aqiCache).                       *)

\* The grid key of lookup ij = <<route, sample>> of request r.
LookupKey(r, ij) == GridKey(SampleCoords(routes[r][ij[1]])[ij[2]])

\* The provider calls in flight for grid key k, over all requests.
InFlight(k) ==
    {c \in UNION {{<<r, ij>> : ij \in PendingLookups(r)} : r \in Reqs} :
        LookupKey(c[1], c[2]) = k}

\* C1 (singleflight): whatever the interleaving of lookups, within a request
\* or across requests, the provider is never called twice for one grid key
\* that is not cached yet: at most one call per key is in flight.
C1_Singleflight == \A k \in GridKeys : Cardinality(InFlight(k)) <= 1

\* Request r fans out in this step: the weather answer arrives and every
\* sample of every route is looked up.
FansOut(r) ==
    pc[r] = "weather" /\ pc'[r] \in {"scoring", "done"} /\ response'[r].status # 500

Cached(coord) == GridKey(coord) \in DOMAIN aqiCache

\* The readings the cache holds for the samples of a route, all of them cached.
CachedReadings(route) ==
    [j \in DOMAIN SampleCoords(route) |-> aqiCache[GridKey(SampleCoords(route)[j])]]

\* C2 (cache hit): a lookup of a coordinate whose grid key is in aqiCache
\* returns the stored reading and calls no provider: after the fan-out the
\* lookup holds the stored reading (it does not wait), a route all of whose
\* samples are cached is scored at once on the stored readings, a request all
\* of whose samples are cached is answered at once, and the cache is as before.
C2_CacheHit ==
    [][\A r \in Reqs : FansOut(r) =>
          /\ aqiCache' = aqiCache
          /\ \A i \in DOMAIN routes[r] :
                LET samples == SampleCoords(routes[r][i])
                IN  /\ \A j \in DOMAIN samples :
                          Cached(samples[j]) /\ pc'[r] = "scoring" =>
                              pm25Values'[r][i][j] = aqiCache[GridKey(samples[j])]
                    /\ (\A j \in DOMAIN samples : Cached(samples[j])) =>
                          processedRoutes'[r][i].pm25 =
                              MathRound(SumSeq(CachedReadings(routes[r][i])),
                                        Len(samples))
          /\ (\A i \in DOMAIN routes[r] :
                 \A j \in DOMAIN SampleCoords(routes[r][i]) :
                     Cached(SampleCoords(routes[r][i])[j])) =>
                pc'[r] = "done" /\ response'[r].status = 200
      ]_vars

\* A request that is still scoring holds a reading equal to the cached one for
\* a key an earlier, answered request left in the cache.
C2_Witness ==
    \E r \in Reqs, q \in Reqs :
        /\ q # r
        /\ response[q].status = 200
        /\ pc[r] = "scoring"
        /\ \E ij \in Lookups(pm25Values[r]) :
              /\ pm25Values[r][ij[1]][ij[2]] >= 0
              /\ LookupKey(r, ij) \in DOMAIN aqiCache
              /\ aqiCache[LookupKey(r, ij)] = pm25Values[r][ij[1]][ij[2]]

\* C3 (shared across requests): over a sequence of requests that do not
\* overlap the provider is called at most once per grid key: a key that is
\* cached (one call was answered) or being fetched has no further call in
\* flight.
C3_OncePerKey ==
    \A k \in GridKeys :
        Cardinality(InFlight(k)) + (IF k \in DOMAIN aqiCache THEN 1 ELSE 0) <= 1

\* C4 (same key, same reading): any two lookups of coordinates with the same
\* grid key, in the same or in different requests, return the same reading.
C4_SameKeySameReading ==
    \A r \in Reqs, q \in Reqs :
        \A ij \in Lookups(pm25Values[r]), kl \in Lookups(pm25Values[q]) :
            /\ pm25Values[r][ij[1]][ij[2]] >= 0
            /\ pm25Values[q][kl[1]][kl[2]] >= 0
            /\ LookupKey(r, ij) = LookupKey(q, kl)
            => pm25Values[r][ij[1]][ij[2]] = pm25Values[q][kl[1]][kl[2]]

\* C5 (entries persist): a grid key once in aqiCache is never removed and
\* the reading stored for it never changes.
C5_EntriesPersist ==
    [][\A k \in DOMAIN aqiCache :
          k \in DOMAIN aqiCache' /\ aqiCache'[k] = aqiCache[k]]_vars

----------------------------------------------------------------------------
(* Properties of the health score.                                         *)

RefRaw(pmSum, pmCount, heatPenalty20, durationMins) ==
    pmCount * (2000 - heatPenalty20 - 4 * durationMins) - 8 * pmSum

\* heatPenalty = tempCelsius > 32 ? (tempCelsius - 32) * 1.5 : 0, times 20.
RefHeatPenalty(temp) == IF temp > 320 THEN 3 * (temp - 320) ELSE 0

\* round(clamp(num/den, 0, 100)): the clamp first, then the nearest integer,
\* a half going up (or down when the double falls below the half).
RefRoundClamp(num, den, halfDown) ==
    LET clamped == IF num < 0 THEN 0 ELSE IF num > 100 * den THEN 100 * den ELSE num
        n == CHOOSE m \in 0..100 :
                 2 * m * den <= 2 * clamped + den /\ 2 * clamped + den < 2 * (m + 1) * den
    IN  IF halfDown /\ 2 * clamped + den = 2 * n * den THEN n - 1 ELSE n

RefScore(pmSum, pmCount, temp, durationMins, halfDown) ==
    RefRoundClamp(RefRaw(pmSum, pmCount, RefHeatPenalty(temp), durationMins),
                  20 * pmCount, halfDown)

\* C7 (reference formula): the score the handler computes, rounding before it
\* clamps, equals round(clamp(100 - avgPm25*0.4 - heatPenalty -
\* durationMins*0.2, 0, 100)) on every input of the grid; and
\* score(avgPm25 = 15, tempCelsius = 25, durationMins = 30) = 88.
C7_MatchesReference ==
    scoreOut # NoScore =>
        /\ scoreOut = RefScore(scoreIn.pmSum, scoreIn.pmCount, scoreIn.temp,
                               scoreIn.durationMins, scoreIn.halfDown)
        /\ (/\ scoreIn.pmSum = 15 * scoreIn.pmCount
            /\ scoreIn.temp = 250
            /\ scoreIn.durationMins = 30) => scoreOut = 88

C7_Witness ==
    /\ scoreIn.pmSum = 15
    /\ scoreIn.pmCount = 1
    /\ scoreIn.temp = 250
    /\ scoreIn.durationMins = 30
    /\ scoreOut = 88

\* C8 (no heat penalty up to 32 degrees): at every temperature <= 32,
\* exactly 32 and far below included, the score is the one of the formula
\* with heat penalty 0, and so the same at any two such temperatures.
C8_NoHeatPenalty ==
    scoreOut # NoScore /\ scoreIn.temp <= 320 =>
        /\ scoreOut = RefRoundClamp(RefRaw(scoreIn.pmSum, scoreIn.pmCount, 0,
                                           scoreIn.durationMins),
                                    20 * scoreIn.pmCount, scoreIn.halfDown)
        /\ \A t \in TempGrid :
              t <= 320 =>
                  HealthScore(scoreIn.pmSum, scoreIn.pmCount, t,
                              scoreIn.durationMins, scoreIn.halfDown) = scoreOut

\* A score strictly between the clamps at exactly 32 degrees.
C8_Witness ==
    /\ scoreIn.temp = 320
    /\ scoreOut > 0
    /\ scoreOut < 100

----------------------------------------------------------------------------
(* Properties of the ranking.                                              *)

\* C9 (fastest): in a 200 response fastest is one of the candidates and its
\* durationMins is the least of all candidates, whatever their health scores;
\* durations [10, 20, 15] give fastest.durationMins = 10.
C9_FastestIsMinimum ==
    rankOut.status = 200 =>
        /\ \E i \in DOMAIN rankIn : rankOut.fastest = rankIn[i]
        /\ \A i \in DOMAIN rankIn :
              rankOut.fastest.durationMins <= rankIn[i].durationMins

\* Durations [10, 20, 15], the 10-minute candidate the least healthy.
C9_Witness ==
    /\ rankOut.status = 200
    /\ Len(rankIn) = 3
    /\ rankIn[1].durationMins = 10 /\ rankIn[1].healthScore = 0
    /\ rankIn[2].durationMins = 20 /\ rankIn[2].healthScore = 88
    /\ rankIn[3].durationMins = 15 /\ rankIn[3].healthScore = 62
    /\ rankOut.fastest.durationMins = 10

\* The first index whose candidate has the least durationMins.
FirstFastest(processed) ==
    CHOOSE i \in DOMAIN processed :
        /\ \A k \in DOMAIN processed :
              processed[i].durationMins <= processed[k].durationMins
        /\ \A k \in 1..(i - 1) :
              processed[k].durationMins > processed[i].durationMins

\* C10 (ties and ids): in a 200 response fastest is the first candidate, in
\* the provider's order, among those with the least durationMins, whatever the
\* order in which the scoring tasks completed; every returned route carries
\* the id route-<i> of its index i in the provider's list.
C10_TieByProviderOrder ==
    \A r \in Reqs :
        response[r].status = 200 =>
            /\ Len(processedRoutes[r]) = Len(routes[r])
            /\ \A i \in DOMAIN routes[r] :
                  /\ processedRoutes[r][i].id = i - 1
                  /\ processedRoutes[r][i].durationMins = DurationMins(routes[r][i])
            /\ response[r].fastest.id = FirstFastest(processedRoutes[r]) - 1
            /\ \A x \in {response[r].fastest, response[r].healthiest,
                         response[r].secondHealthiest} :
                  /\ x.id + 1 \in DOMAIN routes[r]
                  /\ x = processedRoutes[r][x.id + 1]

\* Two candidates tie on 10 minutes, the second completed first, and fastest
\* is the first.
C10_Witness ==
    \E r \in Reqs :
        /\ response[r].status = 200
        /\ Len(processedRoutes[r]) = 2
        /\ processedRoutes[r][1].durationMins = processedRoutes[r][2].durationMins
        /\ doneOrder[r] = <<2, 1>>
        /\ response[r].fastest.id = 0

\* The first index, among those not in `taken`, whose candidate has the
\* greatest healthScore.
FirstHealthiest(processed, taken) ==
    CHOOSE i \in DOMAIN processed \ taken :
        /\ \A k \in DOMAIN processed \ taken :
              processed[i].healthScore >= processed[k].healthScore
        /\ \A k \in (1..(i - 1)) \ taken :
              processed[k].healthScore < processed[i].healthScore

\* C11 (healthiest and second healthiest): in a 200 response healthiest is
\* the candidate with the greatest healthScore and, with two candidates or
\* more, secondHealthiest is the next of the descending order: the greatest
\* of the others, not above healthiest, not below any remaining candidate;
\* equal scores come in the provider's order.
C11_HealthiestAndSecond ==
    rankOut.status = 200 =>
        LET h == FirstHealthiest(rankIn, {})
        IN  /\ rankOut.healthiest = rankIn[h]
            /\ \A k \in DOMAIN rankIn :
                  rankOut.healthiest.healthScore >= rankIn[k].healthScore
            /\ Len(rankIn) >= 2 =>
                  LET s2 == FirstHealthiest(rankIn, {h})
                  IN  /\ rankOut.secondHealthiest = rankIn[s2]
                      /\ rankOut.secondHealthiest.healthScore
                            <= rankOut.healthiest.healthScore
                      /\ \A k \in DOMAIN rankIn \ {h, s2} :
                            rankOut.secondHealthiest.healthScore
                                >= rankIn[k].healthScore

\* Three candidates, the last two tied on the greatest score: the second is
\* healthiest and the third second healthiest.
C11_Witness ==
    /\ rankOut.status = 200
    /\ Len(rankIn) = 3
    /\ rankIn[1].healthScore = 62
    /\ rankIn[2].healthScore = 88
    /\ rankIn[3].healthScore = 88
    /\ rankOut.healthiest.id = 1
    /\ rankOut.secondHealthiest.id = 2

\* C12 (single candidate): when there is one candidate, healthiest,
\* secondHealthiest and fastest of the 200 response are all that route.
C12_SingleCandidate ==
    rankOut.status = 200 /\ Len(rankIn) = 1 =>
        /\ rankOut.fastest.id = rankIn[1].id
        /\ rankOut.healthiest.id = rankIn[1].id
        /\ rankOut.secondHealthiest.id = rankIn[1].id
        /\ rankOut.fastest = rankIn[1]
        /\ rankOut.healthiest = rankIn[1]
        /\ rankOut.secondHealthiest = rankIn[1]

C12_Witness ==
    /\ rankOut.status = 200
    /\ Len(rankIn) = 1
    /\ rankOut.secondHealthiest.id = 0
    /\ rankOut.fastest.id = 0

\* C13 (all three populated): in a 200 response, for any number of
\* candidates from one up, fastest, healthiest and secondHealthiest are each
\* present and each one of the candidates of the request.
C13_AllPopulated ==
    rankOut.status = 200 =>
        /\ Len(rankIn) >= 1
        /\ \A x \in {rankOut.fastest, rankOut.healthiest, rankOut.secondHealthiest} :
              /\ x # NoRoute
              /\ \E i \in DOMAIN rankIn : x = rankIn[i]

\* Two candidates: the three places are filled, by two different routes.
C13_Witness ==
    /\ rankOut.status = 200
    /\ Len(rankIn) = 2
    /\ rankOut.fastest # NoRoute
    /\ rankOut.healthiest # NoRoute
    /\ rankOut.secondHealthiest # NoRoute
    /\ rankOut.secondHealthiest # rankOut.healthiest

----------------------------------------------------------------------------
(* Properties of the error handling.                                       *)

\* Request r is answered with this status and a non-empty error body, and
\* its handler waits for nothing any more.
Answered(r, status) ==
    /\ response'[r].status = status
    /\ response'[r].error # ""
    /\ pc'[r] = "done"

\* No provider call of request r is in flight after the step, and none of its
\* data is left.
NothingInFlight(r) == routes'[r] = <<>> /\ pm25Values'[r] = <<>>

\* C14 (missing input): a request whose start or end is missing or empty is
\* answered 400 with an error body; no geocoding, routing, weather or
\* pollution call is made for it and the cache is unchanged.
C14_MissingInput400 ==
    [][\A r \in Reqs, start \in Queries, end \in Queries :
          (Receive(r, start, end) /\ (start = <<>> \/ end = <<>>)) =>
              /\ Answered(r, 400)
              /\ NothingInFlight(r)
              /\ aqiCache' = aqiCache
      ]_vars

\* A request was refused with 400 while another one waits for the pollution
\* provider, the cache holding a reading.
C14_Witness ==
    \E r \in Reqs, q \in Reqs :
        /\ response[r].status = 400
        /\ pc[r] = "done"
        /\ pc[q] = "scoring"
        /\ PendingLookups(q) # {}
        /\ DOMAIN aqiCache # {}

\* C15 (no routes): when the directions provider answers with a missing or
\* an empty route list the request is answered 404 with an error body; no
\* weather call, no pollution call and no cache insert is made for it, then
\* or later.
C15_NoRoutes404 ==
    [][\A r \in Reqs :
          /\ \A present \in BOOLEAN, routeList \in RouteLists :
                (DirectionsResponse(r, present, routeList)
                 /\ (~present \/ routeList = <<>>)) =>
                    /\ Answered(r, 404)
                    /\ NothingInFlight(r)
                    /\ tempCelsius'[r] = 0
                    /\ aqiCache' = aqiCache
          /\ response[r].status = 404 =>
                pc[r] = "done" /\ pm25Values[r] = <<>> /\ routes[r] = <<>>
      ]_vars

\* A request was answered 404 while another one waits for the pollution
\* provider.
C15_Witness ==
    \E r \in Reqs, q \in Reqs :
        /\ response[r].status = 404
        /\ response[r].error = "No driving routes found."
        /\ pc[q] = "scoring"
        /\ PendingLookups(q) # {}

\* Request r is answered 500, the body carrying the failure's message when
\* it has one.
Answered500(r, message) ==
    /\ Answered(r, 500)
    /\ message # "" => response'[r].error = message

\* Route i of request r ends in this step: lookup j is its last one.
LastLookup(r, i, j) ==
    \A k \in DOMAIN pm25Values[r][i] \ {j} : pm25Values[r][i][k] >= 0

\* C16 (other failures): a geocoding error or not-found, a rejected routing,
\* weather or pollution call and an exception while a route is scored each
\* end in a 500 response whose body carries the failure's message when there
\* is one; a request answered 500 is never answered 200.
C16_OtherFailures500 ==
    [][\A r \in Reqs :
          /\ \A message \in RejectMessages :
                /\ ((\E center \in GeocodeCenters : GeocodeStartResponse(r, "message", center, message))
                    \/ (\E center \in GeocodeCenters : GeocodeEndResponse(r, "message", center, message)))
                   => Answered500(r, "Mapbox API Error")
                /\ ((\E center \in GeocodeCenters : GeocodeStartResponse(r, "nomatch", center, message))
                    \/ (\E center \in GeocodeCenters : GeocodeEndResponse(r, "nomatch", center, message)))
                   => Answered500(r, "Location not found")
                /\ ((\E center \in GeocodeCenters : GeocodeStartResponse(r, "reject", center, message))
                    \/ (\E center \in GeocodeCenters : GeocodeEndResponse(r, "reject", center, message))
                    \/ DirectionsReject(r, message)
                    \/ WeatherReject(r, message))
                   => Answered500(r, message)
                /\ \A ij \in PendingLookups(r) :
                      (pc[r] = "scoring"
                       /\ AirQualityReject(r, ij[1], ij[2], message))
                      => Answered500(r, message)
          /\ \A answer \in WeatherAnswers, halfDown \in BOOLEAN :
                (/\ WeatherResponse(r, answer, halfDown)
                 /\ \E i \in DOMAIN routes[r] :
                       /\ ~routes[r][i].legs
                       /\ \A j \in DOMAIN SampleCoords(routes[r][i]) :
                             Cached(SampleCoords(routes[r][i])[j]))
                => Answered500(r, TypeErrorMessage)
          /\ \A ij \in PendingLookups(r), answer \in AirQualityAnswers,
                halfDown \in BOOLEAN :
                (/\ pc[r] = "scoring"
                 /\ AirQualityResponse(r, ij[1], ij[2], answer, halfDown)
                 /\ ~routes[r][ij[1]].legs
                 /\ LastLookup(r, ij[1], ij[2]))
                => Answered500(r, TypeErrorMessage)
          /\ response[r].status = 500 => response'[r].status # 200
      ]_vars

\* A request failed on a route without legs, after the pollution provider
\* had answered its lookup.
C16_Witness ==
    \E r \in Reqs :
        /\ response[r].status = 500
        /\ response[r].error = TypeErrorMessage
        /\ GridKey(P2) \in DOMAIN aqiCache

\* C17 (fail fast, all or nothing): a failed pollution fetch of any sample of
\* any route fails the request, which is answered 500 with no ranking; a 200
\* response is sent only when every lookup of every route has its reading;
\* and a route is never scored on a part of its samples: its pm25 is the
\* rounded mean of the readings of all its samples.
C17_FailFast ==
    [][\A r \in Reqs :
          /\ \A ij \in PendingLookups(r), message \in RejectMessages :
                (pc[r] = "scoring" /\ AirQualityReject(r, ij[1], ij[2], message))
                => /\ Answered(r, 500)
                   /\ response'[r].fastest = NoRoute
                   /\ processedRoutes'[r] = <<>>
          /\ response'[r].status = 200 /\ response[r].status # 200 =>
                /\ pc[r] = "weather" =>
                      \A i \in DOMAIN routes[r] :
                          /\ \A j \in DOMAIN SampleCoords(routes[r][i]) :
                                Cached(SampleCoords(routes[r][i])[j])
                          /\ processedRoutes'[r][i].pm25 =
                                MathRound(SumSeq(CachedReadings(routes[r][i])),
                                          Len(SampleCoords(routes[r][i])))
                /\ pc[r] = "scoring" =>
                      /\ Cardinality(PendingLookups(r)) = 1
                      /\ \A ij \in Lookups(pm25Values[r]) :
                            pm25Values[r][ij[1]][ij[2]] # Settled
                /\ \A i \in DOMAIN routes[r] : processedRoutes'[r][i] # NoRoute
          /\ pc[r] = "scoring" =>
                \A i \in DOMAIN processedRoutes[r] :
                    processedRoutes[r][i] # NoRoute =>
                        /\ \A j \in DOMAIN pm25Values[r][i] :
                              pm25Values[r][i][j] >= 0
                        /\ Len(pm25Values[r][i]) = Len(SampleCoords(routes[r][i]))
                        /\ processedRoutes[r][i].pm25 =
                              MathRound(SumSeq(pm25Values[r][i]),
                                        Len(pm25Values[r][i]))
      ]_vars

\* A request failed on a rejected pollution fetch while lookups of it were
\* still waiting, one route of it having been scored or not.
C17_Witness ==
    \E r \in Reqs :
        /\ response[r].status = 500
        /\ response[r].error = "fetch failed"
        /\ response[r].fastest = NoRoute
        /\ PendingLookups(r) # {}

\* C18 (a failure aborts sibling work): once a request has been answered 500
\* no provider call is issued and no cache insert is made on its behalf.
C18_FailureAbortsSiblings ==
    [][\A r \in Reqs :
          response[r].status = 500 /\ ~Quiescent(r) =>
              /\ PendingLookups(r)' \subseteq PendingLookups(r)
              /\ \A ij \in PendingLookups(r), answer \in AirQualityAnswers,
                    halfDown \in BOOLEAN :
                    (AirQualityResponse(r, ij[1], ij[2], answer, halfDown))
                    => aqiCache' = aqiCache
      ]_vars

\* Geocoding answers that are a failure: no match, an error payload, a
\* failed call.
FailedGeocoding == {"nomatch", "message", "reject"}

\* C20 (geocoding failures): when the geocoder returns no match, an error
\* payload, or the call fails, getCoordinates throws: the request ends (500)
\* with no routing, weather or pollution call made before or after.
C20_GeocodingFailureAborts ==
    [][\A r \in Reqs :
          /\ \A outcome \in FailedGeocoding, message \in RejectMessages :
                ((\E center \in GeocodeCenters : GeocodeStartResponse(r, outcome, center, message))
                 \/ (\E center \in GeocodeCenters : GeocodeEndResponse(r, outcome, center, message)))
                => /\ Answered(r, 500)
                   /\ NothingInFlight(r)
                   /\ aqiCache' = aqiCache
          /\ pc[r] \in {"geoStart", "geoEnd"} =>
                routes[r] = <<>> /\ pm25Values[r] = <<>> /\ tempCelsius[r] = 0
      ]_vars

\* A request failed on a place that was not found while another one waits
\* for the pollution provider.
C20_Witness ==
    \E r \in Reqs, q \in Reqs :
        /\ response[r].status = 500
        /\ response[r].error = "Location not found"
        /\ pc[q] = "scoring"

----------------------------------------------------------------------------
(* Properties of the literal-coordinate fast path of getCoordinates.       *)

\* The text s from position a to position b is a number: an optional sign,
\* one digit or more, and optionally a point followed by any digits.
NumberText(s, a, b) ==
    \E first \in a..b, last \in a..b :
        /\ first \in {a, a + 1}
        /\ first = a + 1 => s[a] = "-"
        /\ first <= last
        /\ \A p \in first..last : s[p] \in Digits
        /\ \/ last = b
           \/ /\ s[last + 1] = "."
              /\ \A p \in (last + 2)..b : s[p] \in Digits

\* The ways to read the text q as "<lat>, <lon>": blanks, a number from a to
\* c - 1, a comma at c, blanks up to k, a number from k + 1 to b, blanks.
LiteralReadings(q) ==
    LET starts == {a \in DOMAIN q : \A p \in 1..(a - 1) : q[p] = " "}
        ends   == {b \in DOMAIN q : \A p \in (b + 1)..Len(q) : q[p] = " "}
        commas == {c \in DOMAIN q : q[c] = ","}
    IN  {w \in starts \X commas \X (DOMAIN q) \X ends :
            LET a == w[1]
                c == w[2]
                k == w[3]
                b == w[4]
            IN  /\ a < c /\ c <= k /\ k < b
                /\ \A p \in (c + 1)..k : q[p] = " "
                /\ NumberText(q, a, c - 1)
                /\ NumberText(q, k + 1, b)}

RECURSIVE Pow10(_)
Pow10(n) == IF n = 0 THEN 1 ELSE 10 * Pow10(n - 1)

RECURSIVE SumOver(_, _)
SumOver(S, weight) ==
    IF S = {} THEN 0
    ELSE LET p == CHOOSE x \in S : TRUE
         IN  weight[p] + SumOver(S \ {p}, weight)

\* The value of the number written from a to b as <<mantissa, decimals>>:
\* every digit weighs by the number of digits that follow it; the decimals
\* are the digits after the point.
NumberValue(s, a, b) ==
    LET digitsAt == {p \in a..b : s[p] \in Digits}
        weight   == [p \in digitsAt |->
                        (IF s[p] = "1" THEN 1 ELSE 2)
                        * Pow10(Cardinality({x \in digitsAt : x > p}))]
        magnitude == SumOver(digitsAt, weight)
        decimals == Cardinality({p \in digitsAt :
                                   \E x \in a..(p - 1) : s[x] = "."})
    IN  <<IF s[a] = "-" THEN 0 - magnitude ELSE magnitude, decimals>>

\* The result of getCoordinates on a text read as w: no geocoding call, and
\* [lon, lat], the second number first.
FastPath(result, q, w) ==
    /\ result.calls = 0
    /\ result.coords = <<NumberValue(q, w[3] + 1, w[4]), NumberValue(q, w[1], w[2] - 1)>>

\* C19 (literal coordinates): for a text of the form "<lat>, <lon>"
\* getCoordinates calls no geocoder and returns [lon, lat], the first number
\* being the latitude; a request whose start and end are both of that form
\* makes no geocoding call: the first call it waits for is the routing one.
C19_LiteralFastPath ==
    geoOut # <<>> =>
        /\ \A w \in LiteralReadings(geoIn.start) :
              FastPath(geoOut[1].start, geoIn.start, w)
        /\ \A w \in LiteralReadings(geoIn.end) :
              FastPath(geoOut[1].end, geoIn.end, w)
        /\ LiteralReadings(geoIn.start) # {} /\ LiteralReadings(geoIn.end) # {}
              => geoOut[1].wait = "routing"

\* start "-1, 2" and end "1.2, 2.1": no geocoding call, start is [2, -1].
C19_Witness ==
    /\ geoOut # <<>>
    /\ geoIn.start = <<"-", "1", ",", " ", "2">>
    /\ geoIn.end = <<"1", ".", "2", ",", " ", "2", ".", "1">>
    /\ geoOut[1].wait = "routing"
    /\ geoOut[1].start.calls = 0
    /\ geoOut[1].start.coords = <<<<2, 0>>, <<0 - 1, 0>>>>
    /\ geoOut[1].end.coords = <<<<21, 1>>, <<12, 1>>>>

----------------------------------------------------------------------------
(* Stages of a request.                                                    *)

\* The place of a stage in the handler's sequence of outbound calls.
StageRank(stage) ==
    IF stage = "geoStart" THEN 1
    ELSE IF stage = "geoEnd" THEN 2
    ELSE IF stage = "routing" THEN 3
    ELSE IF stage = "weather" THEN 4
    ELSE IF stage = "scoring" THEN 5
    ELSE 0

\* The provider a stage waits for.
StageProvider(stage) ==
    IF stage \in {"geoStart", "geoEnd"} THEN "geocoding"
    ELSE IF stage = "routing" THEN "directions"
    ELSE IF stage = "weather" THEN "weather"
    ELSE "none"

\* Request r issues a pollution lookup in this step.
IssuesLookup(r) ==
    \E ij \in Lookups(pm25Values'[r]) :
        /\ pm25Values'[r][ij[1]][ij[2]] = Pending
        /\ ~(ij \in Lookups(pm25Values[r]) /\ pm25Values[r][ij[1]][ij[2]] = Pending)

\* C21: per request the stages run in the fixed order start geocoding, end
\* geocoding, directions, weather, scoring.  A stage is entered only from an
\* earlier stage of the same run (or from the arrival of the request, the
\* stages skipped being geocodings of literal coordinates), with no response
\* sent; the call awaited is the stage's own; the start geocoding carries no
\* proximity, the end geocoding carries the resolved start coordinate; the
\* directions call is issued with both coordinates resolved, the weather
\* call only from the directions stage with routes, and pollution lookups
\* only from the weather stage.
C21_StageOrder ==
    [][\A r \in Reqs :
          /\ (pc'[r] # pc[r] /\ StageRank(pc'[r]) > 0) =>
                /\ StageRank(pc[r]) < StageRank(pc'[r])
                /\ StageRank(pc[r]) = 0 => Quiescent(r)
                /\ response'[r] = NoResponse
                /\ fetching'[r].provider = StageProvider(pc'[r])
          /\ fetching'[r] # fetching[r] =>
                /\ fetching'[r].provider = StageProvider(pc'[r])
                /\ pc'[r] # pc[r]
          /\ (pc'[r] = "geoStart" /\ pc[r] # "geoStart") =>
                /\ Quiescent(r)
                /\ fetching'[r].coords = <<>>
                /\ startCoords'[r] = NoCoords /\ endCoords'[r] = NoCoords
          /\ (pc'[r] = "geoEnd" /\ pc[r] # "geoEnd") =>
                /\ startCoords'[r] # NoCoords
                /\ endCoords'[r] = NoCoords
                /\ fetching'[r].coords = startCoords'[r]
                /\ pc[r] = "geoStart" => startCoords'[r] \in GeocodeCenters
          /\ (pc'[r] = "routing" /\ pc[r] # "routing") =>
                /\ startCoords'[r] # NoCoords /\ endCoords'[r] # NoCoords
                /\ fetching'[r].coords = startCoords'[r] \o endCoords'[r]
                /\ pc[r] = "geoEnd" =>
                      startCoords'[r] = startCoords[r] /\ endCoords'[r] \in GeocodeCenters
          /\ (pc'[r] = "weather" /\ pc[r] # "weather") =>
                /\ pc[r] = "routing"
                /\ routes'[r] # <<>>
                /\ fetching'[r].coords = endCoords[r]
          /\ (pc'[r] = "scoring" /\ pc[r] # "scoring") => pc[r] = "weather"
          /\ IssuesLookup(r) => pc[r] = "weather"
      ]_vars

\* Both texts were geocoded, the end one with the start's center as bias,
\* and the request went on to wait for the pollution provider.
C21_Witness ==
    \E r \in Reqs, q \in Reqs :
        /\ pc[r] = "geoEnd"
        /\ fetching[r].provider = "geocoding"
        /\ fetching[r].coords # <<>>
        /\ fetching[r].coords = startCoords[r]
        /\ startCoords[r] \in GeocodeCenters
        /\ pc[q] = "scoring"
        /\ PendingLookups(q) # {}

\* The weather call of a request whose destination is `dest`.
WeatherCallAt(dest) == [provider |-> "weather", query |-> <<>>, coords |-> dest]

\* The temperature of a weather answer: its degrees, or 25.0 without them.
AnsweredTemp(data) == IF data.degrees = <<>> THEN 250 ELSE data.degrees[1]

\* C22: a request calls the weather provider once, when the directions
\* stage ends, for the destination coordinate, and not again; the
\* temperature of the answer is kept for the whole scoring stage; every
\* route scored, in the step of the weather answer or later, carries that
\* temperature and the health score computed from it; and the three routes
\* of a 200 response report the same tempCelsius.
C22_WeatherOnce ==
    [][\A r \in Reqs :
          /\ (fetching'[r].provider = "weather" /\ fetching[r].provider # "weather") =>
                /\ pc[r] = "routing" /\ pc'[r] = "weather"
                /\ endCoords[r] # NoCoords
                /\ fetching'[r] = WeatherCallAt(endCoords[r])
          /\ (pc'[r] = "weather") = (fetching'[r].provider = "weather")
          /\ pc[r] = "weather" => (fetching'[r] = fetching[r] \/ pc'[r] \in {"scoring", "done"})
          /\ pc[r] = "scoring" => pc'[r] \in {"scoring", "done"}
          /\ (pc[r] = "scoring" /\ pc'[r] = "scoring") => tempCelsius'[r] = tempCelsius[r]
          /\ \A answer \in WeatherAnswers, halfDown \in BOOLEAN :
                WeatherResponse(r, answer, halfDown) =>
                    /\ pc'[r] = "scoring" => tempCelsius'[r] = AnsweredTemp(answer)
                    /\ \A i \in DOMAIN processedRoutes'[r] :
                          processedRoutes'[r][i] # NoRoute =>
                             /\ processedRoutes'[r][i].tempCelsius = AnsweredTemp(answer)
                             /\ \E h \in BOOLEAN :
                                   processedRoutes'[r][i].healthScore =
                                      RefScore(SumSeq(CachedReadings(routes[r][i])),
                                               Len(SampleCoords(routes[r][i])),
                                               AnsweredTemp(answer),
                                               DurationMins(routes[r][i]), h)
          /\ \A ij \in PendingLookups(r), answer \in AirQualityAnswers,
                halfDown \in BOOLEAN :
                (pc[r] = "scoring" /\ AirQualityResponse(r, ij[1], ij[2], answer, halfDown)) =>
                    \A i \in DOMAIN processedRoutes'[r] :
                        processedRoutes'[r][i] # NoRoute =>
                           /\ processedRoutes'[r][i].tempCelsius = tempCelsius[r]
                           /\ (i = ij[1]) =>
                                 \E h \in BOOLEAN :
                                    processedRoutes'[r][i].healthScore =
                                       RefScore(SumSeq([pm25Values[r][i] EXCEPT ![ij[2]] =
                                                           GetGoogleAirQuality(answer)]),
                                                Len(pm25Values[r][i]), tempCelsius[r],
                                                DurationMins(routes[r][i]), h)
          /\ (response'[r].status = 200 /\ response[r].status # 200) =>
                /\ response'[r].healthiest.tempCelsius = response'[r].fastest.tempCelsius
                /\ response'[r].secondHealthiest.tempCelsius = response'[r].fastest.tempCelsius
                /\ \A i \in DOMAIN processedRoutes'[r] :
                      processedRoutes'[r][i].tempCelsius = response'[r].fastest.tempCelsius
                /\ pc[r] = "scoring" => response'[r].fastest.tempCelsius = tempCelsius[r]
      ]_vars

\* A ranking of two routes at 34.0 degrees was sent for a destination that
\* differs from the start, while another request is scored at 25.0 degrees.
C22_Witness ==
    \E r \in Reqs, q \in Reqs :
        /\ response[r].status = 200
        /\ Len(processedRoutes[r]) = 2
        /\ response[r].fastest.tempCelsius = 340
        /\ response[r].healthiest.tempCelsius = 340
        /\ response[r].secondHealthiest.tempCelsius = 340
        /\ pc[q] = "scoring"
        /\ tempCelsius[q] = 250

\* C23 (barrier before ranking): a ranking is sent only by a step at which
\* the task of every candidate has completed: every lookup of every
\* candidate has its reading (the last one arriving in that step), every
\* candidate is scored, and fastest, healthiest and secondHealthiest are
\* chosen among all the candidates.  While a task is still running no
\* ranking is held, however many candidates are already scored.
C23_BarrierBeforeRanking ==
    [][\A r \in Reqs :
          /\ response'[r].status # 200 =>
                /\ response'[r].fastest = NoRoute
                /\ response'[r].healthiest = NoRoute
                /\ response'[r].secondHealthiest = NoRoute
          /\ (response'[r].status = 200 /\ response[r].status # 200) =>
                LET all == processedRoutes'[r]
                IN  /\ Len(all) = Len(routes[r])
                    /\ \A i \in DOMAIN all : all[i] # NoRoute /\ all[i].id = i - 1
                    /\ {doneOrder'[r][p] : p \in DOMAIN doneOrder'[r]} = DOMAIN routes[r]
                    /\ pc[r] \in {"weather", "scoring"}
                    /\ pc[r] = "weather" =>
                          \A i \in DOMAIN routes[r] :
                             \A j \in DOMAIN SampleCoords(routes[r][i]) :
                                 Cached(SampleCoords(routes[r][i])[j])
                    /\ pc[r] = "scoring" =>
                          /\ Cardinality(PendingLookups(r)) = 1
                          /\ \A ij \in Lookups(pm25Values[r]) \ PendingLookups(r) :
                                pm25Values[r][ij[1]][ij[2]] >= 0
                    /\ response'[r].fastest = all[FirstFastest(all)]
                    /\ response'[r].healthiest = all[FirstHealthiest(all, {})]
                    /\ Len(all) >= 2 =>
                          response'[r].secondHealthiest =
                             all[FirstHealthiest(all, {FirstHealthiest(all, {})})]
      ]_vars

\* A request with one of its two candidates scored holds no ranking while
\* the other candidate's lookup is awaited; another request was ranked with
\* its second candidate completing first.
C23_Witness ==
    \E r \in Reqs, q \in Reqs :
        /\ pc[r] = "scoring"
        /\ Len(routes[r]) = 2
        /\ \E i \in DOMAIN processedRoutes[r] : processedRoutes[r][i] # NoRoute
        /\ PendingLookups(r) # {}
        /\ response[r] = NoResponse
        /\ response[q].status = 200
        /\ doneOrder[q] = <<2, 1>>

----------------------------------------------------------------------------
(* The sampler.                                                            *)

\* C25: the sampler takes its samples at increasing distances from 0, none
\* beyond the route's length, and their number is floor(length / 0.3) + 1;
\* a 0.65 km route has 3 samples.
C25_SampleCount ==
    sampleOut # <<>> =>
        LET distances == sampleOut[1]
        IN  /\ Len(distances) = sampleIn \div 30 + 1
            /\ \A k \in DOMAIN distances :
                  /\ k = 1 => distances[k] = DoubleZero
                  /\ k > 1 => DoubleLess(distances[k - 1], distances[k])
                  /\ ~DoubleLess(DoubleOf(sampleIn, 100), distances[k])
            /\ sampleIn = 65 => Len(distances) = 3

\* C26: a route of length 0 has exactly one sample, at distance 0; every
\* route has at least one sample, the first at distance 0, so the mean of
\* its readings divides by a count of at least 1.
C26_AtLeastOneSample ==
    /\ \A lengthKm \in RouteLengths : SampleCounts[lengthKm] >= 1
    /\ sampleOut # <<>> =>
          /\ Len(sampleOut[1]) >= 1
          /\ sampleOut[1][1] = DoubleZero
          /\ sampleIn = 0 => sampleOut[1] = <<DoubleZero>>

\* The route of length 0 was sampled.
C26_Witness ==
    /\ sampleIn = 0
    /\ sampleOut = <<(<<DoubleZero>>)>>

----------------------------------------------------------------------------
(* Order of completion.                                                    *)

\* The reading sample j of route i gets in the ordering harness: the cache's
\* when the request found the cell in the cache, else its own lookup's.
OrderReading(i, j) ==
    LET key == GridKey(SampleCoords(orderIn[1].routes[i])[j])
    IN  IF key \in DOMAIN orderIn[1].cache THEN orderIn[1].cache[key]
        ELSE GetGoogleAirQuality(orderIn[1].readings[<<i, j>>])

\* The scored routes of the harness's input, computed route by route and
\* sample by sample in index order.
OrderScored ==
    [i \in DOMAIN orderIn[1].routes |->
        ScoredRoute(i, orderIn[1].routes[i],
                    [j \in DOMAIN SampleCoords(orderIn[1].routes[i]) |-> OrderReading(i, j)],
                    GetGoogleWeather(orderIn[1].weather), orderIn[1].halfDown)]

\* C24 (order independence): on a given request, cache and provider
\* answers, every candidate scored so far has the pm25 and healthScore of
\* the in-order computation, and the response is the ranking of the
\* in-order computation, in whatever order the lookups were answered and the
\* candidates' tasks completed.
C24_OrderIndependent ==
    orderIn # <<>> =>
        /\ \A i \in DOMAIN processedRoutes[1] :
              processedRoutes[1][i] # NoRoute => processedRoutes[1][i] = OrderScored[i]
        /\ response[1].status # 0 => response[1] = RankedResponse(OrderScored)
        /\ pc[1] = "done" => response[1].status = 200

\* The ranking was sent after the second candidate completed before the
\* first, the two lookups of one cell having been given different readings.
C24_Witness ==
    /\ orderIn # <<>>
    /\ response[1].status = 200
    /\ doneOrder[1] = <<2, 1>>
    /\ orderIn[1].cache = EmptyCache
    /\ orderIn[1].routes = <<RouteA, RouteB>>
    /\ orderIn[1].readings[<<1, 1>>] # orderIn[1].readings[<<2, 1>>]
    /\ response[1].healthiest.healthScore # response[1].secondHealthiest.healthScore

----------------------------------------------------------------------------
(* The mean of the readings.                                               *)

\* The sum of the readings of the samples `samples` of route i, added to acc.
RECURSIVE SumOfReadings(_, _, _)
SumOfReadings(i, samples, acc) ==
    IF samples = {} THEN acc
    ELSE LET j == CHOOSE k \in samples : TRUE
         IN  SumOfReadings(i, samples \ {j}, acc + OrderReading(i, j))

\* C29: a scored candidate's pm25 is the rounding of, and its healthScore is
\* computed from, the unweighted mean of its samples' readings: one reading
\* per sample (a cell sampled twice counts twice, each time with that
\* sample's reading), summed and divided by the number of samples.
C29_UnweightedMean ==
    orderIn # <<>> =>
        \A i \in DOMAIN processedRoutes[1] :
            processedRoutes[1][i] # NoRoute =>
                LET samples == DOMAIN SampleCoords(orderIn[1].routes[i])
                    total   == SumOfReadings(i, samples, 0)
                    count   == Cardinality(samples)
                IN  /\ count >= 1
                    /\ 2 * count * processedRoutes[1][i].pm25 <= 2 * total + count
                    /\ 2 * total + count < 2 * count * (processedRoutes[1][i].pm25 + 1)
                    /\ processedRoutes[1][i].healthScore =
                          RefScore(total, count, AnsweredTemp(orderIn[1].weather),
                                   DurationMins(orderIn[1].routes[i]),
                                   orderIn[1].halfDown)

\* The candidate whose two samples lie in one cell was scored on the
\* readings 15 and 40 of its two lookups: pm25 is round(27.5) = 28.
C29_Witness ==
    /\ orderIn # <<>>
    /\ orderIn[1].routes = <<RouteD, RouteB>>
    /\ orderIn[1].cache = EmptyCache
    /\ GetGoogleAirQuality(orderIn[1].readings[<<1, 1>>]) = 15
    /\ GetGoogleAirQuality(orderIn[1].readings[<<1, 2>>]) = 40
    /\ Len(processedRoutes[1]) = 2
    /\ processedRoutes[1][1] # NoRoute
    /\ processedRoutes[1][1].pm25 = 28

----------------------------------------------------------------------------
(* The provider clients.                                                   *)

\* C27: getGoogleAirQuality returns 15 when the answer has no pollutants
\* list, no pm25 entry, a pm25 entry without concentration, or a
\* concentration without a numeric value, and the concentration's value
\* otherwise; it returns a number on every answer.
C27_AirQualityFallback ==
    (clientOut # <<>> /\ clientIn[1].fn = "getGoogleAirQuality") =>
        LET data == clientIn[1].data
        IN  /\ clientOut[1] >= 0
            /\ (~data.pollutants \/ ~data.pm25 \/ ~data.concentration
                   \/ data.value = <<>>) => clientOut[1] = 15
            /\ (data.pollutants /\ data.pm25 /\ data.concentration
                   /\ data.value # <<>>) => clientOut[1] = data.value[1]

\* C28: getGoogleWeather returns the degrees of the answer's temperature
\* when it has them, 0 and negative degrees included, and 25.0 when the
\* temperature or its degrees are absent; it returns a number on every
\* answer.
C28_WeatherFallback ==
    (clientOut # <<>> /\ clientIn[1].fn = "getGoogleWeather") =>
        LET data == clientIn[1].data
        IN  /\ clientOut[1] \in (0 - 10 * MaxDegrees - 10)..(10 * MaxDegrees + 10)
            /\ ~data.temperature => clientOut[1] = 250
            /\ (data.temperature /\ data.degrees = <<>>) => clientOut[1] = 250
            /\ (data.temperature /\ data.degrees # <<>>) =>
                  clientOut[1] = data.degrees[1]

\* The weather answer had a temperature of 0 degrees and 0 was returned.
C28_Witness ==
    /\ clientIn = <<[fn |-> "getGoogleWeather", data |-> WeatherData(TRUE, <<0>>)]>>
    /\ clientOut = <<0>>

----------------------------------------------------------------------------
(* No retry.                                                               *)

\* A stage call of request r fails in this step: a geocoding call is
\* rejected or answered with an error or without features, or the
\* directions or weather call is rejected.
StageCallFails(r, message) ==
    \/ \E outcome \in GeocodeOutcomes \ {"match"}, center \in GeocodeCenters :
          \/ GeocodeStartResponse(r, outcome, center, message)
          \/ GeocodeEndResponse(r, outcome, center, message)
    \/ DirectionsReject(r, message)
    \/ WeatherReject(r, message)

\* C30 (no retry): when a geocoding, directions or weather call of a request
\* fails, the same step answers the request 500 and leaves no stage call
\* and no lookup of it in flight; and a run never awaits a stage's call
\* twice: whenever the awaited call changes, the run has moved to a later
\* stage (each geocoding query, the directions call and the weather call
\* being one stage each) or has ended.
C30_NoRetry ==
    [][\A r \in Reqs :
          /\ \A message \in RejectMessages :
                StageCallFails(r, message) =>
                    /\ Answered(r, 500)
                    /\ response'[r].fastest = NoRoute
                    /\ fetching'[r] = NoFetch
                    /\ PendingLookups(r)' = {}
          /\ (fetching[r] # NoFetch /\ fetching'[r] # fetching[r]) =>
                \/ fetching'[r] = NoFetch /\ pc'[r] \in {"done", "scoring"}
                \/ /\ StageRank(pc'[r]) > StageRank(pc[r])
                   /\ fetching'[r].provider = StageProvider(pc'[r])
                   /\ response'[r] = NoResponse
          /\ (fetching[r] # NoFetch /\ fetching'[r] = fetching[r]) => pc'[r] = pc[r]
          /\ response[r].status # 0 =>
                (fetching[r] = NoFetch /\ (fetching'[r] # NoFetch => Quiescent(r)))
      ]_vars

\* One request was answered 500 on a rejected fetch, another on a geocoding
\* without features; neither has a call in flight.
C30_Witness ==
    \E r \in Reqs, q \in Reqs :
        /\ response[r].status = 500 /\ response[r].error = "fetch failed"
        /\ fetching[r] = NoFetch /\ PendingLookups(r) = {}
        /\ response[q].status = 500 /\ response[q].error = "Location not found"
        /\ fetching[q] = NoFetch /\ PendingLookups(q) = {}

----------------------------------------------------------------------------
(* Grid keys.                                                              *)

\* The keys the request of the ordering harness looked up are all cached.
OrderKeysCached ==
    \A i \in DOMAIN orderIn[1].routes :
        \A j \in DOMAIN SampleCoords(orderIn[1].routes[i]) :
            GridKey(SampleCoords(orderIn[1].routes[i])[j]) \in DOMAIN aqiCache

\* C31 as stated: (77.1234, 12.5678) and (77.1236, 12.5679) have the same
\* grid key "77.123,12.568".
C31_SameGridKey ==
    orderIn # <<>> =>
        /\ GridKey(P1) = <<77123, 12568>>
        /\ GridKey(P2) = <<77123, 12568>>

\* C31 as the code has it: toFixed(3) rounds to the nearest thousandth, so
\* (77.1234, 12.5678) has the key "77.123,12.568" and (77.1236, 12.5679) the
\* key "77.124,12.568"; the keys differ, and a request that sampled both
\* coordinates leaves two cache entries.  (77.1234, 12.5678) and
\* (77.1231, 12.5681) share the key "77.123,12.568".
C31_GridKeyRounds ==
    orderIn # <<>> =>
        /\ GridKey(P1) = <<77123, 12568>>
        /\ GridKey(P2) = <<77124, 12568>>
        /\ GridKey(P3) = GridKey(P1)
        /\ (response[1].status = 200 /\ orderIn[1].routes = <<RouteA, RouteB>>) =>
              /\ GridKey(P1) \in DOMAIN aqiCache
              /\ GridKey(P2) \in DOMAIN aqiCache
              /\ Cardinality(DOMAIN aqiCache) = 2

\* A request that sampled (77.1234, 12.5678) and (77.1236, 12.5679) on an
\* empty cache was ranked; the cache holds both keys.
C31_Witness ==
    /\ orderIn # <<>>
    /\ orderIn[1].cache = EmptyCache
    /\ orderIn[1].routes = <<RouteA, RouteB>>
    /\ response[1].status = 200
    /\ OrderKeysCached
    /\ DOMAIN aqiCache = {<<77123, 12568>>, <<77124, 12568>>}

----------------------------------------------------------------------------
(* One response per request.                                               *)

\* C32: a request gets one response and no second one.  The response of a
\* request changes only when it is sent (there was none, the status is 200,
\* 400, 404 or 500 and the handler waits for nothing more) or when the next
\* request takes the slot, which happens only when no run of the earlier
\* one is left; a request has a response exactly when its handler has
\* ended; lookups that fail after the response leave it as it is.
C32_OneResponse ==
    [][\A r \in Reqs :
          /\ response'[r] # response[r] =>
                \/ /\ response[r].status = 0
                   /\ response'[r].status \in {200, 400, 404, 500}
                   /\ pc'[r] = "done"
                \/ /\ response[r].status # 0
                   /\ Quiescent(r)
                   /\ \E start \in Queries, end \in Queries : Receive(r, start, end)
          /\ (pc'[r] = "done") = (response'[r].status # 0)
          /\ \A ij \in PendingLookups(r), message \in RejectMessages :
                (response[r].status # 0 /\ AirQualityReject(r, ij[1], ij[2], message))
                => response'[r] = response[r]
      ]_vars

\* A request of three lookups, none cached, was answered 500 on a rejected
\* lookup; a second lookup was rejected after the response (nothing was
\* stored) and the third is still awaited.
C32_Witness ==
    \E r \in Reqs :
        /\ response[r].status = 500
        /\ aqiCache = EmptyCache
        /\ Len(routes[r]) = 2
        /\ Cardinality(Lookups(pm25Values[r])) = 3
        /\ Cardinality(PendingLookups(r)) = 1

----------------------------------------------------------------------------
(* A failed lookup and the cache.                                          *)

\* C33: when the provider call of a lookup fails, the cache is left as it
\* is: no entry is added or changed, for the lookup's grid key or any other;
\* and a request that fans out while a grid key is not in the cache calls
\* the provider for every sample of that key.
C33_FailedLookupNotCached ==
    [][\A r \in Reqs :
          /\ \A ij \in PendingLookups(r), message \in RejectMessages :
                AirQualityReject(r, ij[1], ij[2], message) =>
                    /\ aqiCache' = aqiCache
                    /\ LookupKey(r, ij) \notin DOMAIN aqiCache =>
                          LookupKey(r, ij) \notin DOMAIN aqiCache'
          /\ (FansOut(r) /\ pc'[r] = "scoring") =>
                \A i \in DOMAIN routes[r] :
                    \A j \in DOMAIN SampleCoords(routes[r][i]) :
                        ~Cached(SampleCoords(routes[r][i])[j]) =>
                            pm25Values'[r][i][j] = Pending
      ]_vars

\* The lookup of (77.1234, 12.5678) of a request was rejected, the cache is
\* empty, and another request has a lookup of the same grid key at the
\* provider.
C33_Witness ==
    \E r \in Reqs, q \in Reqs :
        /\ response[r].status = 500
        /\ response[r].error = "fetch failed"
        /\ aqiCache = EmptyCache
        /\ routes[r] = <<RouteA, RouteB>>
        /\ pm25Values[r][1][1] = Settled
        /\ Cardinality(PendingLookups(r)) = 2
        /\ pc[q] = "scoring"
        /\ routes[q] = <<RouteB>>
        /\ <<1, 1>> \in PendingLookups(q)
        /\ LookupKey(q, <<1, 1>>) = GridKey(P1)

----------------------------------------------------------------------------
(* Termination.                                                            *)

\* C34: when every provider call is answered or fails in the end, a request
\* whose handler waits (for a stage call or for the fan-in of its lookups)
\* is answered in the end, with a status of 200, 400, 404 or 500.
C34_EventuallyAnswered ==
    \A r \in Reqs :
        (pc[r] \notin {"idle", "done"})
            ~> (pc[r] = "done" /\ response[r].status \in {200, 400, 404, 500})

\* A request was answered with 500 after one of its lookups failed, while
\* another of its lookups is still at the provider.
C34_Witness ==
    \E r \in Reqs :
        /\ pc[r] = "done" /\ response[r].status = 500
        /\ Len(routes[r]) = 2
        /\ Cardinality(PendingLookups(r)) = 1

----------------------------------------------------------------------------
(* Distinct places of the health ranking.                                  *)

\* C35: with two candidates or more, healthiest and secondHealthiest of the
\* 200 response are two different candidates (different ids), also when all
\* candidates have the same healthScore; with a single candidate they are
\* that candidate both.
C35_DistinctPlaces ==
    rankOut.status = 200 =>
        /\ Len(rankIn) >= 2 =>
              /\ rankOut.healthiest.id # rankOut.secondHealthiest.id
              /\ \E i \in DOMAIN rankIn, k \in DOMAIN rankIn :
                    /\ i # k
                    /\ rankOut.healthiest = rankIn[i]
                    /\ rankOut.secondHealthiest = rankIn[k]
        /\ Len(rankIn) = 1 =>
              rankOut.healthiest.id = rankOut.secondHealthiest.id
        /\ rankOut.healthiest.id = rankOut.secondHealthiest.id => Len(rankIn) = 1

\* Three candidates of one healthScore: the first two of the provider's
\* order take the two places.
C35_Witness ==
    /\ rankOut.status = 200
    /\ Len(rankIn) = 3
    /\ \A i \in DOMAIN rankIn : rankIn[i].healthScore = 62
    /\ rankOut.healthiest.id = 0
    /\ rankOut.secondHealthiest.id = 1

----------------------------------------------------------------------------
(* Monotonicity of the health score.                                       *)

\* The values of the scoring grid for one input.
ScoreGrid(field) ==
    CASE field = "pmSum"        -> {5 * k : k \in 0..MaxPmSteps}
      [] field = "temp"         -> TempGrid
      [] field = "durationMins" -> 0..MaxDurationMins

\* The inputs that differ from x in the one field given, by a greater value.
\* Two evaluations on the same unrounded value are the same computation on
\* doubles (up to 32 degrees the temperature is not used), so they round the
\* same way.
RaisedInputs(x, field) ==
    {y \in {[x EXCEPT ![field] = v, !.halfDown = h] :
                v \in {w \in ScoreGrid(field) : w > x[field]}, h \in BOOLEAN} :
        RawHealthScore(y.pmSum, y.pmCount, y.temp, y.durationMins)
            = RawHealthScore(x.pmSum, x.pmCount, x.temp, x.durationMins)
                => y.halfDown = x.halfDown}

ScoreOf(x) == HealthScore(x.pmSum, x.pmCount, x.temp, x.durationMins, x.halfDown)

\* C36: the health score does not increase when the average PM2.5 (the sum
\* of the readings of a fixed number of samples), the temperature or the
\* duration is raised and the other two inputs are kept.
C36_Monotone ==
    scoreOut # NoScore =>
        \A field \in {"pmSum", "temp", "durationMins"} :
            \A y \in RaisedInputs(scoreIn, field) : ScoreOf(y) <= scoreOut

\* A score strictly inside the clamp, at 32.0 degrees, that each of the
\* three inputs lowers when raised.
C36_Witness ==
    /\ scoreOut \in 1..99
    /\ scoreIn.temp = 320
    /\ \A field \in {"pmSum", "temp", "durationMins"} :
          \E y \in RaisedInputs(scoreIn, field) : ScoreOf(y) < scoreOut

----------------------------------------------------------------------------
(* Properties of the page.                                                 *)

\* C37: at most one request of the page is in flight at a time (no
\* fetchRoutes sends a request while loading is true, by the button or by
\* Enter), and the routes shown are the answer to the request sent last: an
\* older answer does not replace a newer one.
C37_OneRequestInFlight ==
    /\ Cardinality(Waiting(uiCalls)) <= 1
    /\ uiRoutes # Null => uiRoutes[1].call = Len(uiCalls)

\* C38: a fetchRoutes call that sent a request ends with loading false, on
\* success and on failure, and then exactly one of these holds: routes is
\* set and error is empty, or error is not empty and routes is null.
C38_EndsSettled ==
    [][\A c \in 1..MaxCalls :
          (FetchResolves(c) \/ \E message \in UiFailures : FetchFails(c, message))
              => /\ uiLoading' = FALSE
                 /\ (uiRoutes' # Null /\ uiError' = "")
                        # (uiError' # "" /\ uiRoutes' = Null)]_vars

====
